---- MODULE Spec2Model ----
(***************************************************************************)
(* Intent detection and negation resolution of src/intents.py              *)
(* (IntentParser), driven as in test_intent_parser: a sentence is given,   *)
(* detect_intents scans it, then validate_intent, normalize_provider and   *)
(* extract_os read the result.  has_negation and extract_action are also   *)
(* callable on their own.                                                  *)
(*                                                                         *)
(* Python strings are TLA+ strings; a character is a string of length 1.   *)
(* Offsets handed to has_negation are 0-based, as match.start() is.        *)
(*                                                                         *)
(* VoiceConfirmation.confirm_yes_no of src/voice_confirmation_system.py is *)
(* modelled with what the recogniser hears as the input.                   *)
(*                                                                         *)
(* Several callers running the pipeline at once are modelled with the      *)
(* module-level tables as shared state and every dict, list and set that   *)
(* detect_intents creates as an object with an identity of its own; one    *)
(* step is one pass of the loop over the categories.                       *)
(***************************************************************************)
EXTENDS Integers, Sequences, FiniteSets, TLC

VARIABLES sentence, pc, detected, valid, provider, os, probe,
          heard, confirmed,
          callers, tables, heap,
          interaction, command, engine, fallback, quick

\* the sentence of the single caller, its position and its results
intentVars == <<sentence, pc, detected, valid, provider, os, probe>>

\* what confirm_yes_no got from listen and what it returned
voiceVars == <<heard, confirmed>>

\* the callers running the pipeline at once, the module-level tables they
\* read, and the identity the next created object gets
callVars == <<callers, tables, heap>>

\* the InteractionMode object, and the calls in progress of
\* get_confirmed_command, listen_with_retry, voice_input_with_smart_fallback
\* and main_quick_flow
uiVars == <<interaction, command, engine, fallback, quick>>

vars == <<sentence, pc, detected, valid, provider, os, probe, heard, confirmed,
          callers, tables, heap,
          interaction, command, engine, fallback, quick>>

(***************************************************************************)
(* Bounds of the explored inputs.                                          *)
(***************************************************************************)
MaxTokens == 3
MaxFill == 6

(***************************************************************************)
(* Characters and the str methods the parser uses.                         *)
(***************************************************************************)
CharsOf(s) == {SubSeq(s, i, i) : i \in 1..Len(s)}

\* \w of the re module, over the characters the inputs are written in
WordChars == CharsOf("abcdefghijklmnopqrstuvwxyzABCDEFGHIJKLMNOPQRSTUVWXYZ0123456789_")

\* what str.split() with no argument splits on
SpaceChars == {" ", "\t", "\n", "\r", "\f"}

LowerTable ==
    [A |-> "a", B |-> "b", C |-> "c", D |-> "d", E |-> "e", F |-> "f", G |-> "g",
     H |-> "h", I |-> "i", J |-> "j", K |-> "k", L |-> "l", M |-> "m", N |-> "n",
     O |-> "o", P |-> "p", Q |-> "q", R |-> "r", S |-> "s", T |-> "t", U |-> "u",
     V |-> "v", W |-> "w", X |-> "x", Y |-> "y", Z |-> "z"]

UpperTable ==
    [a |-> "A", b |-> "B", c |-> "C", d |-> "D", e |-> "E", f |-> "F", g |-> "G",
     h |-> "H", i |-> "I", j |-> "J", k |-> "K", l |-> "L", m |-> "M", n |-> "N",
     o |-> "O", p |-> "P", q |-> "Q", r |-> "R", s |-> "S", t |-> "T", u |-> "U",
     v |-> "V", w |-> "W", x |-> "X", y |-> "Y", z |-> "Z"]

LowerChar(c) == IF c \in DOMAIN LowerTable THEN LowerTable[c] ELSE c

UpperChar(c) == IF c \in DOMAIN UpperTable THEN UpperTable[c] ELSE c

RECURSIVE Lower(_)
\* str.lower(): every character replaced by its lower-case form (the string
\* is mapped half by half)
Lower(s) ==
    IF Len(s) = 0 THEN ""
    ELSE IF Len(s) = 1 THEN LowerChar(s)
    ELSE Lower(SubSeq(s, 1, Len(s) \div 2)) \o Lower(SubSeq(s, Len(s) \div 2 + 1, Len(s)))

\* str.capitalize(): first character upper-cased, the rest lower-cased
Capitalize(s) == IF s = "" THEN "" ELSE UpperChar(Head(s)) \o Lower(Tail(s))

\* text[:n]
Prefix(text, n) == SubSeq(text, 1, n)

\* 1, 2, ..., n
Positions(n) == [i \in 1..n |-> i]

\* is position k (1-based) of s a whitespace character; positions outside s are
IsSpaceAt(s, k) == k < 1 \/ k > Len(s) \/ SubSeq(s, k, k) \in SpaceChars

\* str.split(): the maximal runs of non-whitespace characters, in order
Split(s) ==
    LET IsStart(i) == ~IsSpaceAt(s, i) /\ IsSpaceAt(s, i - 1)
        IsEnd(i) == ~IsSpaceAt(s, i) /\ IsSpaceAt(s, i + 1)
        starts == SelectSeq(Positions(Len(s)), IsStart)
        ends == SelectSeq(Positions(Len(s)), IsEnd)
    IN  [w \in 1..Len(starts) |-> SubSeq(s, starts[w], ends[w])]

\* seq[-n:]
LastN(seq, n) == IF Len(seq) <= n THEN seq ELSE SubSeq(seq, Len(seq) - n + 1, Len(seq))

\* a in b, for strings
Contains(b, a) == \E i \in 1..(Len(b) - Len(a) + 1) : SubSeq(b, i, i + Len(a) - 1) = a

(***************************************************************************)
(* Regular expressions of the form \b<literal>\b.                          *)
(***************************************************************************)
\* is position k (1-based) of s a \w character; positions outside s are not
IsWordAt(s, k) == k >= 1 /\ k <= Len(s) /\ SubSeq(s, k, k) \in WordChars

\* \b between positions k and k+1 of s (k = 0 is the start, k = Len(s) the end)
WordBoundary(s, k) == IsWordAt(s, k) # IsWordAt(s, k + 1)

\* \b<lit>\b matches s starting at position i (1-based)
MatchAt(s, lit, i) ==
    /\ i >= 1
    /\ i + Len(lit) - 1 <= Len(s)
    /\ SubSeq(s, i, i + Len(lit) - 1) = lit
    /\ WordBoundary(s, i - 1)
    /\ WordBoundary(s, i + Len(lit) - 1)

\* re.search(rf'\b{lit}\b', s) finds a match
Search(s, lit) == \E i \in 1..Len(s) : MatchAt(s, lit, i)

\* re.search(rf'\b{lit}\b', s, re.IGNORECASE), lit being lower case: the
\* characters of s are compared by their lower-case form
SearchIgnoreCase(s, lit) == Search(Lower(s), lit)

RECURSIVE NonOverlapping(_, _, _, _)
\* of the match positions cand (ascending, 1-based), from the c-th on, those a
\* left-to-right scan reports: a match is skipped when it starts before
\* position from, where the previous reported match ended
NonOverlapping(cand, c, from, len) ==
    IF c > Len(cand) THEN <<>>
    ELSE IF cand[c] < from THEN NonOverlapping(cand, c + 1, from, len)
    ELSE <<cand[c] - 1>> \o NonOverlapping(cand, c + 1, cand[c] + len, len)

\* FindIter with the pattern written without the two \b
FindIterNoBoundary(s, lit) ==
    LET t == Lower(s)
        Hit(i) == i + Len(lit) - 1 <= Len(t) /\ SubSeq(t, i, i + Len(lit) - 1) = lit
    IN  NonOverlapping(SelectSeq(Positions(Len(t)), Hit), 1, 1, Len(lit))

\* re.finditer(rf'\b{lit}\b', s, re.IGNORECASE), lit being lower case: the
\* start offsets (0-based) of the non-overlapping matches, left to right
FindIter(s, lit) ==
    LET t == Lower(s)
        Hit(i) == MatchAt(t, lit, i)
    IN  NonOverlapping(SelectSeq(Positions(Len(t)), Hit), 1, 1, Len(lit))

(***************************************************************************)
(* The static tables.                                                      *)
(***************************************************************************)
\* INTENT_CATEGORIES, in declared order; only "keywords" is read by the parser
INTENT_CATEGORIES ==
    << [name |-> "networking",
        keywords |-> <<"vpc", "vnet", "network", "subnet", "gateway", "load balancer",
                       "alb", "nlb", "vpn", "dns", "route", "peering">>],
       [name |-> "compute",
        keywords |-> <<"server", "instance", "ec2", "vm", "virtual machine", "compute",
                       "container", "auto scaling", "asg", "vmss", "small", "medium",
                       "large">>],
       [name |-> "database",
        keywords |-> <<"database", "db", "rds", "sql", "mysql", "postgres", "postgresql",
                       "dynamodb", "cosmosdb", "firestore", "mongodb", "mariadb">>],
       [name |-> "storage",
        keywords |-> <<"storage", "bucket", "blob", "s3", "ebs", "disk", "volume",
                       "file storage", "object storage">>],
       [name |-> "security",
        keywords |-> <<"iam", "role", "policy", "security group", "firewall", "acl",
                       "kms", "key vault", "secrets", "certificate", "strict">>],
       [name |-> "monitoring",
        keywords |-> <<"monitor", "monitoring", "logs", "alerts", "metrics", "cloudwatch",
                       "log analytics", "stackdriver">>],
       [name |-> "container",
        keywords |-> <<"container", "docker", "kubernetes", "k8s", "ecs", "eks", "aks",
                       "gke", "fargate", "pod", "deployment">>],
       [name |-> "serverless",
        keywords |-> <<"lambda", "function", "serverless", "cloud function",
                       "azure function">>],
       [name |-> "provider",
        keywords |-> <<"aws", "amazon web services", "azure", "microsoft azure",
                       "gcp", "google cloud", "google cloud platform">>],
       [name |-> "os",
        keywords |-> <<"ubuntu", "windows", "amazon linux", "centos", "rhel",
                       "debian", "fedora">>] >>

\* ACTION_VERBS, in declared order
ACTION_VERBS ==
    << [kind |-> "create",
        verbs |-> <<"create", "deploy", "launch", "provision", "setup", "set up", "add",
                    "build">>],
       [kind |-> "delete",
        verbs |-> <<"delete", "remove", "destroy", "terminate", "tear down">>],
       [kind |-> "modify",
        verbs |-> <<"modify", "update", "change", "edit", "configure">>],
       [kind |-> "query",
        verbs |-> <<"show", "list", "describe", "get", "what", "which">>] >>

\* NEGATION_PATTERNS: each pattern is \b(alt|alt|...)\b, given by its alternatives
NEGATION_PATTERNS ==
    << <<"no", "not", "without", "don't", "dont", "never", "exclude">>,
       <<"except", "excluding">> >>

\* the number of words before the keyword that has_negation reads
NegationWindow == 5

\* Python's None, and a returned value, as sequences of length 0 and 1
None == <<>>

Some(v) == <<v>>

\* no InteractionMode object and no call of the voice and menu functions
UiIdle ==
    /\ interaction = None
    /\ command = None
    /\ engine = None
    /\ fallback = None
    /\ quick = None

(***************************************************************************)
(* IntentParser.                                                           *)
(***************************************************************************)
\* SearchPattern with the word required to be the alternative itself
\* (re.fullmatch in place of re.search)
SearchPatternFullMatch(pattern, word) ==
    \E a \in 1..Len(pattern) : Lower(word) = pattern[a]

\* re.search(pattern, word, re.IGNORECASE) for one of NEGATION_PATTERNS
SearchPattern(pattern, word) ==
    \E a \in 1..Len(pattern) : SearchIgnoreCase(word, pattern[a])

\* has_negation reading one word less: [-4:]
HasNegationLast4(text, keyword_position) ==
    LET words_before == LastN(Split(Prefix(text, keyword_position)), NegationWindow - 1)
    IN  \E w \in 1..Len(words_before) :
            \E p \in 1..Len(NEGATION_PATTERNS) :
                SearchPattern(NEGATION_PATTERNS[p], words_before[w])

\* has_negation reading one word more: [-6:]
HasNegationLast6(text, keyword_position) ==
    LET words_before == LastN(Split(Prefix(text, keyword_position)), NegationWindow + 1)
    IN  \E w \in 1..Len(words_before) :
            \E p \in 1..Len(NEGATION_PATTERNS) :
                SearchPattern(NEGATION_PATTERNS[p], words_before[w])

\* has_negation(text, keyword_position)
has_negation(text, keyword_position) ==
    LET words_before == LastN(Split(Prefix(text, keyword_position)), NegationWindow)
    IN  \E w \in 1..Len(words_before) :
            \E p \in 1..Len(NEGATION_PATTERNS) :
                SearchPattern(NEGATION_PATTERNS[p], words_before[w])

RECURSIVE ActionFrom(_, _)
\* the loop of extract_action from the k-th action type on
ActionFrom(sentence_lower, k) ==
    IF k > Len(ACTION_VERBS) THEN "create"
    ELSE IF \E v \in 1..Len(ACTION_VERBS[k].verbs) :
                Search(sentence_lower, ACTION_VERBS[k].verbs[v])
         THEN ACTION_VERBS[k].kind
         ELSE ActionFrom(sentence_lower, k + 1)

\* extract_action deciding by the position in the text: the kind of the verb
\* that stands first in the sentence
ExtractActionTextOrder(s) ==
    LET t == Lower(s)
        hits == {h \in (1..Len(t)) \X (1..Len(ACTION_VERBS)) :
                    \E v \in 1..Len(ACTION_VERBS[h[2]].verbs) :
                        MatchAt(t, ACTION_VERBS[h[2]].verbs[v], h[1])}
    IN  IF hits = {} THEN "create"
        ELSE ACTION_VERBS[(CHOOSE h \in hits : \A g \in hits : h[1] <= g[1])[2]].kind

RECURSIVE ActionFromSkipNegated(_, _)
\* ActionFrom passing over a verb that has a negation cue before it
ActionFromSkipNegated(sentence_lower, k) ==
    IF k > Len(ACTION_VERBS) THEN "create"
    ELSE IF \E v \in 1..Len(ACTION_VERBS[k].verbs) :
                \E i \in 1..Len(sentence_lower) :
                    /\ MatchAt(sentence_lower, ACTION_VERBS[k].verbs[v], i)
                    /\ ~has_negation(sentence_lower, i - 1)
         THEN ACTION_VERBS[k].kind
         ELSE ActionFromSkipNegated(sentence_lower, k + 1)

\* extract_action passing over negated verbs
ExtractActionSkipNegated(s) == ActionFromSkipNegated(Lower(s), 1)

\* extract_action searching the sentence as given, not lower-cased
ExtractActionNoLower(s) == ActionFrom(s, 1)

\* extract_action(sentence)
extract_action(s) == ActionFrom(Lower(s), 1)

\* index of category in the insertion-ordered dict cats, 0 when it is no key
KeyIndex(cats, category) ==
    IF \E i \in 1..Len(cats) : cats[i].category = category
    THEN CHOOSE i \in 1..Len(cats) : cats[i].category = category
    ELSE 0

\* is kw in the list
InList(list, kw) == \E i \in 1..Len(list) : list[i] = kw

\* OneMatch creating the category's list before the negation test
OneMatchListFirst(det, category, keyword, text, start) ==
    LET c1 == IF KeyIndex(det.categories, category) = 0
              THEN Append(det.categories, [category |-> category, keywords |-> <<>>])
              ELSE det.categories
        k  == KeyIndex(c1, category)
    IN  IF has_negation(text, start)
        THEN [det EXCEPT !.negated_categories = @ \cup {category}, !.categories = c1]
        ELSE [det EXCEPT !.categories =
                 IF InList(c1[k].keywords, keyword) THEN c1
                 ELSE [c1 EXCEPT ![k].keywords = Append(@, keyword)]]

\* OneMatch without the "avoid duplicates" test
OneMatchNoDedup(det, category, keyword, text, start) ==
    IF has_negation(text, start)
    THEN [det EXCEPT !.negated_categories = @ \cup {category}]
    ELSE LET c1 == IF KeyIndex(det.categories, category) = 0
                   THEN Append(det.categories, [category |-> category, keywords |-> <<>>])
                   ELSE det.categories
             k  == KeyIndex(c1, category)
         IN  [det EXCEPT !.categories = [c1 EXCEPT ![k].keywords = Append(@, keyword)]]

\* OneMatch skipping a keyword that some category's list already holds
OneMatchGlobalDedup(det, category, keyword, text, start) ==
    IF has_negation(text, start)
    THEN [det EXCEPT !.negated_categories = @ \cup {category}]
    ELSE IF \E i \in 1..Len(det.categories) : InList(det.categories[i].keywords, keyword)
    THEN det
    ELSE LET c1 == IF KeyIndex(det.categories, category) = 0
                   THEN Append(det.categories, [category |-> category, keywords |-> <<>>])
                   ELSE det.categories
             k  == KeyIndex(c1, category)
         IN  [det EXCEPT !.categories = [c1 EXCEPT ![k].keywords = Append(@, keyword)]]

\* OneMatch putting a new keyword at the front of the category's list
OneMatchPrepend(det, category, keyword, text, start) ==
    IF has_negation(text, start)
    THEN [det EXCEPT !.negated_categories = @ \cup {category}]
    ELSE LET c1 == IF KeyIndex(det.categories, category) = 0
                   THEN Append(det.categories, [category |-> category, keywords |-> <<>>])
                   ELSE det.categories
             k  == KeyIndex(c1, category)
             c2 == IF InList(c1[k].keywords, keyword)
                   THEN c1
                   ELSE [c1 EXCEPT ![k].keywords = <<keyword>> \o @]
         IN  [det EXCEPT !.categories = c2]

\* OneMatch testing the negation at the end of the match, not at its start
OneMatchFromEnd(det, category, keyword, text, start) ==
    IF has_negation(text, start + Len(keyword))
    THEN [det EXCEPT !.negated_categories = @ \cup {category}]
    ELSE LET c1 == IF KeyIndex(det.categories, category) = 0
                   THEN Append(det.categories, [category |-> category, keywords |-> <<>>])
                   ELSE det.categories
             k  == KeyIndex(c1, category)
             c2 == IF InList(c1[k].keywords, keyword)
                   THEN c1
                   ELSE [c1 EXCEPT ![k].keywords = Append(@, keyword)]
         IN  [det EXCEPT !.categories = c2]

\* the body of "for match in matches" for one match starting at offset start
OneMatch(det, category, keyword, text, start) ==
    IF has_negation(text, start)
    THEN [det EXCEPT !.negated_categories = @ \cup {category}]
    ELSE LET c1 == IF KeyIndex(det.categories, category) = 0
                   THEN Append(det.categories, [category |-> category, keywords |-> <<>>])
                   ELSE det.categories
             k  == KeyIndex(c1, category)
             c2 == IF InList(c1[k].keywords, keyword)
                   THEN c1
                   ELSE [c1 EXCEPT ![k].keywords = Append(@, keyword)]
         IN  [det EXCEPT !.categories = c2]

RECURSIVE KeywordMatchesFirstOnly(_, _, _, _)
\* KeywordMatches visiting only the first match of each keyword
KeywordMatchesFirstOnly(category, keywords, text, k) ==
    IF k > Len(keywords) THEN <<>>
    ELSE LET matches == FindIter(text, keywords[k])
         IN  [m \in 1..(IF Len(matches) = 0 THEN 0 ELSE 1) |->
                 [category |-> category, keyword |-> keywords[k], start |-> matches[m]]]
             \o KeywordMatchesFirstOnly(category, keywords, text, k + 1)

RECURSIVE KeywordMatches(_, _, _, _)
\* the matches the inner two loops visit for one category, in loop order
\* (for keyword in keywords, from the k-th on; for match in matches)
KeywordMatches(category, keywords, text, k) ==
    IF k > Len(keywords) THEN <<>>
    ELSE LET matches == FindIter(text, keywords[k])
         IN  [m \in 1..Len(matches) |->
                 [category |-> category, keyword |-> keywords[k], start |-> matches[m]]]
             \o KeywordMatches(category, keywords, text, k + 1)

RECURSIVE AllMatches(_, _)
\* the matches the three nested loops visit, in loop order (for category,
\* data in self.categories.items(), from the c-th category on)
AllMatches(text, c) ==
    IF c > Len(INTENT_CATEGORIES) THEN <<>>
    ELSE KeywordMatches(INTENT_CATEGORIES[c].name, INTENT_CATEGORIES[c].keywords, text, 1)
         \o AllMatches(text, c + 1)

RECURSIVE ScanMatches(_, _, _, _)
\* the loop body run on the visited matches ms in order, from the m-th on
ScanMatches(det, text, ms, m) ==
    IF m > Len(ms) THEN det
    ELSE ScanMatches(OneMatch(det, ms[m].category, ms[m].keyword, text, ms[m].start),
                     text, ms, m + 1)

\* detect_intents(sentence); categories is the dict as the sequence of its
\* items in insertion order
detect_intents(s) ==
    LET sentence_lower == Lower(s)
    IN  ScanMatches([action |-> extract_action(s),
                     categories |-> <<>>,
                     negated_categories |-> {},
                     raw_sentence |-> s],
                    sentence_lower, AllMatches(sentence_lower, 1), 1)

\* set(detected["categories"].keys())
Keys(cats) == {cats[i].category : i \in 1..Len(cats)}

\* detected["categories"][category]
Get(cats, category) == cats[KeyIndex(cats, category)].keywords

\* validate_intent without the "no categories detected" test
ValidateNoEmptyTest(det) ==
    IF det.negated_categories \cap Keys(det.categories) # {} THEN FALSE
    ELSE TRUE

\* validate_intent without the negated-and-detected test
ValidateNoOverlapTest(det) ==
    IF det.categories = <<>> THEN FALSE
    ELSE TRUE

\* validate_intent(detected)
validate_intent(det) ==
    IF det.negated_categories \cap Keys(det.categories) # {} THEN FALSE
    ELSE IF det.categories = <<>> THEN FALSE
    ELSE TRUE

\* normalize_provider without the "amazon" alias
NormalizeProviderNoAmazon(det) ==
    IF "provider" \notin Keys(det.categories) THEN None
    ELSE LET provider_keywords == Get(det.categories, "provider")
         IN  IF provider_keywords = <<>> THEN None
             ELSE LET keyword == Lower(provider_keywords[1])
                  IN  IF Contains(keyword, "aws")
                      THEN Some("aws")
                      ELSE IF Contains(keyword, "azure") \/ Contains(keyword, "microsoft")
                      THEN Some("azure")
                      ELSE IF Contains(keyword, "gcp") \/ Contains(keyword, "google")
                      THEN Some("gcp")
                      ELSE None

\* normalize_provider without the "google" alias
NormalizeProviderNoGoogle(det) ==
    IF "provider" \notin Keys(det.categories) THEN None
    ELSE LET provider_keywords == Get(det.categories, "provider")
         IN  IF provider_keywords = <<>> THEN None
             ELSE LET keyword == Lower(provider_keywords[1])
                  IN  IF Contains(keyword, "aws") \/ Contains(keyword, "amazon")
                      THEN Some("aws")
                      ELSE IF Contains(keyword, "azure") \/ Contains(keyword, "microsoft")
                      THEN Some("azure")
                      ELSE IF Contains(keyword, "gcp")
                      THEN Some("gcp")
                      ELSE None

\* normalize_provider(detected)
normalize_provider(det) ==
    IF "provider" \notin Keys(det.categories) THEN None
    ELSE LET provider_keywords == Get(det.categories, "provider")
         IN  IF provider_keywords = <<>> THEN None
             ELSE LET keyword == Lower(provider_keywords[1])
                  IN  IF Contains(keyword, "aws") \/ Contains(keyword, "amazon")
                      THEN Some("aws")
                      ELSE IF Contains(keyword, "azure") \/ Contains(keyword, "microsoft")
                      THEN Some("azure")
                      ELSE IF Contains(keyword, "gcp") \/ Contains(keyword, "google")
                      THEN Some("gcp")
                      ELSE None

\* extract_os without the special case of "rhel"
ExtractOsNoRhel(det) ==
    IF "os" \notin Keys(det.categories) THEN None
    ELSE LET os_keywords == Get(det.categories, "os")
         IN  IF os_keywords = <<>> THEN None
             ELSE LET os_name == os_keywords[1]
                  IN  IF os_name = "amazon linux" THEN Some("Amazon Linux")
                      ELSE Some(Capitalize(os_name))

\* extract_os returning the recorded keyword as it is
ExtractOsNoCapitalize(det) ==
    IF "os" \notin Keys(det.categories) THEN None
    ELSE LET os_keywords == Get(det.categories, "os")
         IN  IF os_keywords = <<>> THEN None
             ELSE LET os_name == os_keywords[1]
                  IN  IF os_name = "amazon linux" THEN Some("Amazon Linux")
                      ELSE IF os_name = "rhel" THEN Some("RHEL")
                      ELSE Some(os_name)

\* extract_os(detected)
extract_os(det) ==
    IF "os" \notin Keys(det.categories) THEN None
    ELSE LET os_keywords == Get(det.categories, "os")
         IN  IF os_keywords = <<>> THEN None
             ELSE LET os_name == os_keywords[1]
                  IN  IF os_name = "amazon linux" THEN Some("Amazon Linux")
                      ELSE IF os_name = "rhel" THEN Some("RHEL")
                      ELSE Some(Capitalize(os_name))

(***************************************************************************)
(* The sentences given to the parser.                                      *)
(***************************************************************************)
RECURSIVE Join(_)
\* the words typed with one blank between them (an empty word leaves two
\* blanks in a row, or a blank at the start or the end)
Join(toks) ==
    IF toks = <<>> THEN ""
    ELSE IF Len(toks) = 1 THEN toks[1]
    ELSE toks[1] \o " " \o Join(Tail(toks))

\* k filler words
Fill(k) == [i \in 1..k |-> "x"]

PipeVocab == {"", "x", "no", "database", "mysql", "vpc", "adbc"}

PipeSentences == {Join(t) : t \in [1..MaxTokens -> PipeVocab]}

CueTokens ==
    {"no", "not", "without", "don't", "dont", "never", "exclude", "except", "excluding",
     "NO", "Don't", "WITHOUT", "not,", "no-", "(without", "note", "nothing", "excluded",
     "a_no", "x"}

WindowSentences ==
    {Join(<<c>> \o Fill(k) \o <<"vpc">>) : c \in CueTokens, k \in 0..MaxFill}
    \cup
    {Join(<<c, a>> \o Fill(k) \o <<b>>) :
        c \in {"no", "x"}, a \in {"database", "mysql"}, b \in {"database", "mysql"},
        k \in 0..MaxFill}

ActionVocab ==
    {"", "x", "deploy", "remove", "Remove", "update", "show", "deployed", "setup",
     "set", "up", "tear", "down"}

ActionSentences == {Join(<<a, b>>) : a \in ActionVocab, b \in ActionVocab}

ProviderMentions ==
    {"amazon", "amazon web services", "aws", "Amazon", "Amazon Web Services", "AWS",
     "azure", "microsoft azure", "microsoft", "gcp", "google cloud",
     "google cloud platform", "google", "amazon linux"}

ProviderSentences ==
    {Join(<<"deploy", w, m>>) : w \in {"on", "without"}, m \in ProviderMentions}

OsMentions ==
    {"ubuntu", "windows", "amazon linux", "centos", "rhel", "debian", "fedora",
     "Ubuntu", "RHEL", "CentOS", "linux", "rhel and ubuntu", "ubuntu not rhel"}

OsSentences ==
    {Join(<<"deploy", w, m>>) : w \in {"on", "without"}, m \in OsMentions}

\* keywords inside longer words, and next to punctuation, hyphens and digits
BoundarySentences ==
    {"adbc", "mysql", "monitoring", "monitor", "sql", "db", "vpc,", "e2-medium",
     "my_vpc", "vpc2", "(vpc)", "vpc.", "subnets", "sub-net", "load  balancer",
     "load-balancer", "database no database", "mysql, not mysql", "no vpc, vpc",
     "container", "no container", "x x x x x x", "   ", " \t "}

\* keywords named against their declared order
OrderSentences ==
    {"azure and aws", "deploy on azure then aws", "gcp azure aws", "windows and ubuntu",
     "fedora debian rhel", "large medium small server", "mysql db database vpc",
     "docker on ubuntu in a vpc", "os windows provider gcp database sql"}

\* action verbs with and without a negation cue before them
NegatedVerbSentences ==
    {Join(<<c, v, "the server">>) :
        c \in {"x", "don't", "never", "not", "without", "except"},
        v \in {"delete", "deploy", "update", "show", "keep"}}

\* negation cues after the keyword, and keywords of several words
AfterSentences ==
    {"vpc not", "vpc without", "vpc, no", "database not vpc", "no x x x x load balancer",
     "no x x x x x load balancer", "no x x x load balancer", "load balancer not",
     "load no balancer", "no x x x x security group", "no x x x x x security group",
     "not a x x x virtual machine", "virtual machine without x"}

\* the sentences of test_intent_parser and of the test suite
Scenarios ==
    {"Create a VPC with two subnets and a load balancer",
     "Deploy an EC2 instance WITHOUT a database",
     "I don't want any monitoring or logging",
     "Setup a MySQL database with RDS",
     "Remove the security group from my server",
     "Launch a Kubernetes cluster with auto-scaling",
     "Create storage bucket and enable logging",
     "Deploy a small Ubuntu server on AWS with MySQL",
     "AWS EC2 t2.micro",
     "Azure Standard_B2s VM",
     "GCP e2-medium instance",
     "Deploy a server WITHOUT a database",
     "Create a VPC but don't enable monitoring",
     "Launch EC2 instance without security group",
     "Launch a large container in GCP with MongoDB",
     "Deploy a server without a database but add a MySQL instance",
     ""}

Sentences ==
    PipeSentences \cup WindowSentences \cup ActionSentences \cup ProviderSentences
    \cup OsSentences \cup BoundarySentences \cup OrderSentences
    \cup NegatedVerbSentences \cup AfterSentences \cup Scenarios

(***************************************************************************)
(* The caller: one sentence, then either the pipeline of                   *)
(* test_intent_parser or a direct call of has_negation / extract_action.   *)
(***************************************************************************)
Init ==
    /\ sentence \in Sentences
    /\ pc = "start"
    /\ detected = None
    /\ valid = None
    /\ provider = None
    /\ os = None
    /\ probe = None
    /\ heard = None
    /\ confirmed = None
    /\ callers = None
    /\ tables = None
    /\ heap = 0
    /\ UiIdle

\* result = parser.detect_intents(sentence)
DetectIntents ==
    /\ pc = "start"
    /\ detected' = detect_intents(sentence)
    /\ pc' = "detected"
    /\ UNCHANGED <<sentence, valid, provider, os, probe, voiceVars, callVars, uiVars>>

\* valid = parser.validate_intent(result)
ValidateIntent ==
    /\ pc = "detected"
    /\ valid' = Some(validate_intent(detected))
    /\ pc' = "validated"
    /\ UNCHANGED <<sentence, detected, provider, os, probe, voiceVars, callVars, uiVars>>

\* provider = parser.normalize_provider(result)
NormalizeProvider ==
    /\ pc = "validated"
    /\ provider' = normalize_provider(detected)
    /\ pc' = "normalized"
    /\ UNCHANGED <<sentence, detected, valid, os, probe, voiceVars, callVars, uiVars>>

\* os = parser.extract_os(result)
ExtractOs ==
    /\ pc = "normalized"
    /\ os' = extract_os(detected)
    /\ pc' = "done"
    /\ UNCHANGED <<sentence, detected, valid, provider, probe, voiceVars, callVars, uiVars>>

\* parser.has_negation(sentence, pos) for an offset pos into the sentence
HasNegation ==
    /\ pc = "start"
    /\ \E pos \in 0..Len(sentence) :
          probe' = [op |-> "has_negation", pos |-> pos,
                    out |-> has_negation(sentence, pos)]
    /\ pc' = "probed"
    /\ UNCHANGED <<sentence, detected, valid, provider, os, voiceVars, callVars, uiVars>>

\* parser.extract_action(sentence)
ExtractAction ==
    /\ pc = "start"
    /\ probe' = [op |-> "extract_action", pos |-> 0, out |-> extract_action(sentence)]
    /\ pc' = "probed"
    /\ UNCHANGED <<sentence, detected, valid, provider, os, voiceVars, callVars, uiVars>>

Next ==
    \/ DetectIntents
    \/ ValidateIntent
    \/ NormalizeProvider
    \/ ExtractOs
    \/ HasNegation
    \/ ExtractAction

Spec == Init /\ [][Next]_vars

\* the loop body of test_intent_parser alone: the four calls in their order
Pipeline ==
    \/ DetectIntents
    \/ ValidateIntent
    \/ NormalizeProvider
    \/ ExtractOs

SpecPipeline == Init /\ [][Pipeline]_vars

(***************************************************************************)
(* VoiceConfirmation: listen and confirm_yes_no.                           *)
(***************************************************************************)
\* the number of words of a recognised response
RespMaxWords == 2

RespVocab ==
    {"", "yes", "yeah", "yep", "correct", "right", "ok", "okay", "sure", "confirm",
     "no", "nope", "wrong", "incorrect", "cancel", "stop", "not", "maybe", "Yes", "NO",
     "know"}

\* the texts recognize_google may return
Recognized == {Join(t) : t \in [1..RespMaxWords -> RespVocab]}

\* what the recogniser does in one call of listen: it returns a text, or one
\* of the exceptions listen catches is raised
ListenOutcomes ==
    {[kind |-> "text", text |-> t] : t \in Recognized}
    \cup {[kind |-> k, text |-> ""] :
             k \in {"WaitTimeoutError", "UnknownValueError", "RequestError", "Exception"}}

\* str.strip(): s without its leading and trailing whitespace
Strip(s) ==
    LET inside == {i \in 1..Len(s) : ~IsSpaceAt(s, i)}
    IN  IF inside = {} THEN ""
        ELSE SubSeq(s, CHOOSE i \in inside : \A j \in inside : i <= j,
                       CHOOSE i \in inside : \A j \in inside : i >= j)

\* listen(timeout): the pair (success, text) for what the recogniser did
listen(outcome) ==
    IF outcome.kind = "text"
    THEN IF Strip(outcome.text) = ""
         THEN [success |-> FALSE, text |-> "No speech detected"]
         ELSE [success |-> TRUE, text |-> Strip(outcome.text)]
    ELSE IF outcome.kind = "WaitTimeoutError"
    THEN [success |-> FALSE, text |-> "Timeout - no speech detected"]
    ELSE IF outcome.kind = "UnknownValueError"
    THEN [success |-> FALSE, text |-> "Could not understand speech"]
    ELSE IF outcome.kind = "RequestError"
    THEN [success |-> FALSE, text |-> "Service error: "]
    ELSE [success |-> FALSE, text |-> "Error: "]

yes_words == <<"yes", "yeah", "yep", "correct", "right", "ok", "okay", "sure", "confirm">>

no_words == <<"no", "nope", "wrong", "incorrect", "cancel", "stop">>

\* what confirm_yes_no returns after listen gave (success, response)
confirm_yes_no(success, response) ==
    IF ~success THEN FALSE
    ELSE LET response_lower == Lower(response)
         IN  IF \E w \in 1..Len(yes_words) : Contains(response_lower, yes_words[w])
             THEN TRUE
             ELSE IF \E w \in 1..Len(no_words) : Contains(response_lower, no_words[w])
             THEN FALSE
             ELSE FALSE

InitVoice ==
    /\ sentence = ""
    /\ pc = "confirm"
    /\ detected = None
    /\ valid = None
    /\ provider = None
    /\ os = None
    /\ probe = None
    /\ heard = None
    /\ confirmed = None
    /\ callers = None
    /\ tables = None
    /\ heap = 0
    /\ UiIdle

\* confirmed = self.confirm_yes_no(question): the question is spoken, listen
\* is called once, and the answer is decided
ConfirmYesNo ==
    /\ pc = "confirm"
    /\ \E outcome \in ListenOutcomes :
          /\ heard' = listen(outcome)
          /\ confirmed' = Some(confirm_yes_no(heard'.success, heard'.text))
    /\ pc' = "confirmed"
    /\ UNCHANGED <<sentence, detected, valid, provider, os, probe, callVars, uiVars>>

NextVoice == ConfirmYesNo

SpecVoice == InitVoice /\ [][NextVoice]_vars

(***************************************************************************)
(* Several callers of the pipeline, on one parser or on several.           *)
(***************************************************************************)
Callers == {1, 2}

\* the IntentParser instances; __init__ binds self.categories,
\* self.action_verbs and self.negation_patterns to the module-level tables
Parsers == {1, 2}

CallSentences == {"", "database no database", "MySQL container"}

\* which parser each caller uses: the first caller uses parser 1, the others
\* that one or another
ParserChoices == {g \in [Callers -> Parsers] : g[1] = 1}

\* the identities of the keyword lists of INTENT_CATEGORIES, by category
TableLists == 1..Len(INTENT_CATEGORIES)

\* ScanCategoryStep storing the table's own keyword list as the category's
\* list (detected["categories"][category] = keywords)
ScanCategoryStepAlias(tbl, st, h, c) ==
    LET text == Lower(st.sentence)
        name == tbl.INTENT_CATEGORIES[c].name
        keywords == tbl.INTENT_CATEGORIES[c].keywords
        det == ScanMatches(st.detected, text, KeywordMatches(name, keywords, text, 1), 1)
        created == name \in Keys(det.categories)
    IN  [tables |-> tbl,
         heap |-> h,
         caller |-> [st EXCEPT
                        !.detected =
                            IF created
                            THEN [det EXCEPT !.categories[KeyIndex(det.categories, name)]
                                                 .keywords = keywords]
                            ELSE det,
                        !.objs = IF created THEN @ \cup {c} ELSE @,
                        !.next = c + 1,
                        !.pc = IF c = Len(tbl.INTENT_CATEGORIES) THEN "detected"
                               ELSE "scan"]]

\* one pass of "for category, data in self.categories.items()", for the c-th
\* category, by the caller in state st, with the tables tbl and the next
\* identity h: the tables, the caller and the next identity after it.  The
\* list of a category that becomes a key is a new object.
ScanCategoryStep(tbl, st, h, c) ==
    LET text == Lower(st.sentence)
        name == tbl.INTENT_CATEGORIES[c].name
        keywords == tbl.INTENT_CATEGORIES[c].keywords
        det == ScanMatches(st.detected, text, KeywordMatches(name, keywords, text, 1), 1)
        created == name \in Keys(det.categories)
    IN  [tables |-> tbl,
         heap |-> IF created THEN h + 1 ELSE h,
         caller |-> [st EXCEPT
                        !.detected = det,
                        !.objs = IF created THEN @ \cup {h} ELSE @,
                        !.next = c + 1,
                        !.pc = IF c = Len(tbl.INTENT_CATEGORIES) THEN "detected"
                               ELSE "scan"]]

InitCallers ==
    /\ sentence = ""
    /\ pc = "callers"
    /\ detected = None
    /\ valid = None
    /\ provider = None
    /\ os = None
    /\ probe = None
    /\ heard = None
    /\ confirmed = None
    /\ callers \in {[i \in Callers |->
                       [sentence |-> f[i], parser |-> g[i], pc |-> "start", next |-> 0,
                        detected |-> None, objs |-> {}, valid |-> None,
                        provider |-> None, os |-> None]] :
                     f \in [Callers -> CallSentences], g \in ParserChoices}
    /\ tables = [INTENT_CATEGORIES |-> INTENT_CATEGORIES,
                 ACTION_VERBS |-> ACTION_VERBS,
                 NEGATION_PATTERNS |-> NEGATION_PATTERNS]
    /\ heap = Len(INTENT_CATEGORIES) + 1
    /\ UiIdle

\* detect_intents up to its loop: the action is extracted and the result
\* dict, its categories dict and its negated_categories set are created
BeginDetect(i) ==
    /\ callers[i].pc = "start"
    /\ callers' = [callers EXCEPT
                      ![i].detected = [action |-> extract_action(callers[i].sentence),
                                       categories |-> <<>>,
                                       negated_categories |-> {},
                                       raw_sentence |-> callers[i].sentence],
                      ![i].objs = {heap, heap + 1, heap + 2},
                      ![i].next = 1,
                      ![i].pc = "scan"]
    /\ heap' = heap + 3
    /\ UNCHANGED <<tables, intentVars, voiceVars, uiVars>>

\* one pass of the loop over the categories; the last pass returns
ScanCategory(i) ==
    /\ callers[i].pc = "scan"
    /\ LET after == ScanCategoryStep(tables, callers[i], heap, callers[i].next)
       IN  /\ callers' = [callers EXCEPT ![i] = after.caller]
           /\ tables' = after.tables
           /\ heap' = after.heap
    /\ UNCHANGED <<intentVars, voiceVars, uiVars>>

\* valid = parser.validate_intent(result)
CallValidate(i) ==
    /\ callers[i].pc = "detected"
    /\ callers' = [callers EXCEPT
                      ![i].valid = Some(validate_intent(callers[i].detected)),
                      ![i].pc = "validated"]
    /\ UNCHANGED <<tables, heap, intentVars, voiceVars, uiVars>>

\* provider = parser.normalize_provider(result)
CallNormalize(i) ==
    /\ callers[i].pc = "validated"
    /\ callers' = [callers EXCEPT
                      ![i].provider = normalize_provider(callers[i].detected),
                      ![i].pc = "normalized"]
    /\ UNCHANGED <<tables, heap, intentVars, voiceVars, uiVars>>

\* os = parser.extract_os(result)
CallExtractOs(i) ==
    /\ callers[i].pc = "normalized"
    /\ callers' = [callers EXCEPT
                      ![i].os = extract_os(callers[i].detected),
                      ![i].pc = "done"]
    /\ UNCHANGED <<tables, heap, intentVars, voiceVars, uiVars>>

NextCallers ==
    \/ \E i \in Callers : BeginDetect(i)
    \/ \E i \in Callers : ScanCategory(i)
    \/ \E i \in Callers : CallValidate(i)
    \/ \E i \in Callers : CallNormalize(i)
    \/ \E i \in Callers : CallExtractOs(i)

SpecCallers == InitCallers /\ [][NextCallers]_vars

(***************************************************************************)
(* hybrid_mode.InteractionMode: set_mode and toggle_mode.                  *)
(***************************************************************************)
\* the number of calls made on the object
MaxCalls == 5

\* the values set_mode is called with
ModesTried == {"text", "voice", "auto", "", "Voice", "manual", "speech"}

\* set_mode not recording the mode when it does not change
SetModeSkipSame(self, mode) ==
    IF mode \in {"text", "voice", "auto"}
    THEN [self |-> [self EXCEPT
                       !.mode_history = IF mode = self.current_mode THEN @
                                        ELSE Append(@, self.current_mode),
                       !.current_mode = mode],
          ret |-> TRUE]
    ELSE [self |-> self, ret |-> FALSE]

\* set_mode(self, mode): the object after the call and the value returned
set_mode(self, mode) ==
    IF mode \in {"text", "voice", "auto"}
    THEN [self |-> [self EXCEPT !.mode_history = Append(@, self.current_mode),
                                !.current_mode = mode],
          ret |-> TRUE]
    ELSE [self |-> self, ret |-> FALSE]

\* toggle_mode(self): the object after the call (nothing is returned)
toggle_mode(self) ==
    IF self.current_mode = "voice"
    THEN set_mode(self, "text").self
    ELSE set_mode(self, "voice").self

\* no call of the intent parser, of confirm_yes_no or of several callers
OthersIdle ==
    /\ sentence = ""
    /\ pc = "idle"
    /\ detected = None
    /\ valid = None
    /\ provider = None
    /\ os = None
    /\ probe = None
    /\ heard = None
    /\ confirmed = None
    /\ callers = None
    /\ tables = None
    /\ heap = 0

\* InteractionMode(); with the object are kept the number of calls made, the
\* number of set_mode calls that returned True (those made by toggle_mode
\* among them) and the last call with the object as it was before it
InitMode ==
    /\ OthersIdle
    /\ interaction = [current_mode |-> "text", mode_history |-> <<>>,
                      calls |-> 0, successes |-> 0, last |-> None]
    /\ command = None
    /\ engine = None
    /\ fallback = None
    /\ quick = None

\* the fields of the object itself
ModeObject(x) == [current_mode |-> x.current_mode, mode_history |-> x.mode_history]

\* mode_manager.set_mode(mode)
SetMode ==
    /\ interaction # None
    /\ interaction.calls < MaxCalls
    /\ \E mode \in ModesTried :
          LET out == set_mode(ModeObject(interaction), mode)
          IN  interaction' = [current_mode |-> out.self.current_mode,
                              mode_history |-> out.self.mode_history,
                              calls |-> interaction.calls + 1,
                              successes |-> interaction.successes
                                            + (IF out.ret THEN 1 ELSE 0),
                              last |-> Some([op |-> "set_mode", mode |-> mode,
                                             ret |-> out.ret,
                                             before |-> ModeObject(interaction)])]
    /\ UNCHANGED <<intentVars, voiceVars, callVars, command, engine, fallback, quick>>

\* mode_manager.toggle_mode()
ToggleMode ==
    /\ interaction # None
    /\ interaction.calls < MaxCalls
    /\ LET out == toggle_mode(ModeObject(interaction))
       IN  interaction' = [current_mode |-> out.current_mode,
                           mode_history |-> out.mode_history,
                           calls |-> interaction.calls + 1,
                           successes |-> interaction.successes + 1,
                           last |-> Some([op |-> "toggle_mode", mode |-> "",
                                          ret |-> TRUE,
                                          before |-> ModeObject(interaction)])]
    /\ UNCHANGED <<intentVars, voiceVars, callVars, command, engine, fallback, quick>>

NextMode ==
    \/ SetMode
    \/ ToggleMode

SpecMode == InitMode /\ [][NextMode]_vars

(***************************************************************************)
(* VoiceConfirmation.get_confirmed_command.                                *)
(***************************************************************************)
\* the largest max_attempts the function is called with
MaxAttempts == 3

\* what the recogniser does when the command is listened for
CommandsHeard ==
    {[kind |-> "text", text |-> t] :
        t \in {"deploy a web server", " create a database ", "cancel", " "}}
    \cup {[kind |-> k, text |-> ""] : k \in {"WaitTimeoutError", "UnknownValueError"}}

\* what the recogniser does when the yes or no is listened for
AnswersHeard ==
    {[kind |-> "text", text |-> t] :
        t \in {"yes", "Yes please", "no", "incorrect", "maybe", ""}}
    \cup {[kind |-> k, text |-> ""] : k \in {"WaitTimeoutError", "RequestError"}}

\* AttemptsLeft with the loop running once more
AttemptsLeftOneMore(attempt, max_attempts) == attempt <= max_attempts + 1

\* for attempt in range(1, max_attempts + 1): is there an attempt-th pass
AttemptsLeft(attempt, max_attempts) == attempt <= max_attempts

\* get_confirmed_command(max_attempts) is called; history keeps, for every
\* attempt made, what listen gave for the command and what confirm_yes_no
\* returned (None when it was not called)
InitCommand ==
    /\ OthersIdle
    /\ interaction = None
    /\ command \in {[max_attempts |-> m, attempt |-> 1, pc |-> "listen", heard |-> None,
                      history |-> <<>>, result |-> None] : m \in 0..MaxAttempts}
    /\ engine = None
    /\ fallback = None
    /\ quick = None

\* Step 1 of an attempt: success, command = self.listen(); a failure ends
\* the attempt
CommandListen ==
    /\ command # None
    /\ command.pc = "listen"
    /\ AttemptsLeft(command.attempt, command.max_attempts)
    /\ \E outcome \in CommandsHeard :
          LET got == listen(outcome)
          IN  command' =
                IF got.success
                THEN [command EXCEPT !.heard = Some(got), !.pc = "confirm"]
                ELSE [command EXCEPT
                         !.history = Append(@, [heard |-> got, confirmed |-> None]),
                         !.attempt = @ + 1]
    /\ UNCHANGED <<intentVars, voiceVars, callVars, interaction, engine, fallback, quick>>

\* Step 2 of an attempt: confirmed = self.confirm_yes_no(question); the
\* command is returned when confirmed, otherwise the attempt ends
CommandConfirm ==
    /\ command # None
    /\ command.pc = "confirm"
    /\ \E outcome \in AnswersHeard :
          LET answer == listen(outcome)
              yes == confirm_yes_no(answer.success, answer.text)
              entry == [heard |-> command.heard[1], confirmed |-> Some(yes)]
          IN  command' =
                IF yes
                THEN [command EXCEPT
                         !.history = Append(@, entry),
                         !.result = Some(<<TRUE, command.heard[1].text>>),
                         !.pc = "returned"]
                ELSE [command EXCEPT
                         !.history = Append(@, entry),
                         !.heard = None,
                         !.attempt = @ + 1,
                         !.pc = "listen"]
    /\ UNCHANGED <<intentVars, voiceVars, callVars, interaction, engine, fallback, quick>>

\* after the loop: return False, ""
CommandGiveUp ==
    /\ command # None
    /\ command.pc = "listen"
    /\ ~AttemptsLeft(command.attempt, command.max_attempts)
    /\ command' = [command EXCEPT !.result = Some(<<FALSE, "">>), !.pc = "returned"]
    /\ UNCHANGED <<intentVars, voiceVars, callVars, interaction, engine, fallback, quick>>

NextCommand ==
    \/ CommandListen
    \/ CommandConfirm
    \/ CommandGiveUp

SpecCommand == InitCommand /\ [][NextCommand]_vars

(***************************************************************************)
(* EnhancedVoiceEngine.listen_with_retry.                                  *)
(***************************************************************************)
\* the largest max_retries the function is called with
MaxRetries == 2

\* what one pass of the try block can end in: recognised text, or one of
\* the exceptions the handlers tell apart
EngineOutcomes ==
    {[kind |-> "text", text |-> t] : t \in {"create a server", " deploy ", "  "}}
    \cup {[kind |-> k, text |-> ""] :
            k \in {"WaitTimeoutError", "UnknownValueError", "RequestError",
                   "OSError", "Exception"}}

\* the exception the except clauses see: blank text raises UnknownValueError
Raised(outcome) ==
    IF outcome.kind = "text"
    THEN IF Strip(outcome.text) = "" THEN "UnknownValueError" ELSE "none"
    ELSE outcome.kind

\* EndsCall with the speech-service error retried
EndsCallOnlyOSError(kind) == kind = "OSError"

\* the handlers that return at once
EndsCall(kind) == kind \in {"RequestError", "OSError"}

\* last_error as each handler sets it (the exception's own text is "e")
LastError(kind) ==
    CASE kind = "WaitTimeoutError" ->
            "I didn't hear anything. Please speak when you see the listening prompt."
      [] kind = "UnknownValueError" ->
            "I heard sound but couldn't understand the words. Please speak more clearly."
      [] kind = "RequestError" ->
            "Speech service error: e. Please check your internet connection."
      [] kind = "OSError" -> "Microphone access error: e"
      [] OTHER -> "Unexpected error: e"

MicrophoneMissing == "Microphone not available. Please check your hardware."

RetriesExhausted == "Voice recognition failed after maximum retries"

\* listen_with_retry(max_retries) is called on an engine with or without a
\* microphone; history keeps the outcome of every pass of the loop
InitEngine ==
    /\ OthersIdle
    /\ interaction = None
    /\ command = None
    /\ engine \in {[microphone |-> mic, max_retries |-> m, retry_count |-> 0,
                     last_error |-> "", pc |-> "entry", history |-> <<>>,
                     result |-> None] : mic \in BOOLEAN, m \in 0..MaxRetries}
    /\ fallback = None
    /\ quick = None

\* if self.microphone is None: return False, error_msg
EngineEntry ==
    /\ engine # None
    /\ engine.pc = "entry"
    /\ engine' = IF engine.microphone
                 THEN [engine EXCEPT !.pc = "loop"]
                 ELSE [engine EXCEPT !.result = Some(<<FALSE, MicrophoneMissing>>),
                                     !.pc = "returned"]
    /\ UNCHANGED <<intentVars, voiceVars, callVars, interaction, command, fallback, quick>>

\* one pass of while retry_count <= max_retries: the try block and the
\* handler of what it raised
EngineAttempt ==
    /\ engine # None
    /\ engine.pc = "loop"
    /\ engine.retry_count <= engine.max_retries
    /\ \E outcome \in EngineOutcomes :
          LET kind == Raised(outcome)
              seen == Append(engine.history, outcome)
          IN  engine' =
                IF kind = "none"
                THEN [engine EXCEPT !.history = seen,
                                    !.result = Some(<<TRUE, Strip(outcome.text)>>),
                                    !.pc = "returned"]
                ELSE IF EndsCall(kind)
                THEN [engine EXCEPT !.history = seen,
                                    !.last_error = LastError(kind),
                                    !.result = Some(<<FALSE, LastError(kind)>>),
                                    !.pc = "returned"]
                ELSE [engine EXCEPT !.history = seen,
                                    !.last_error = LastError(kind),
                                    !.retry_count = @ + 1]
    /\ UNCHANGED <<intentVars, voiceVars, callVars, interaction, command, fallback, quick>>

\* after the loop: return False, last_error if last_error else ...
EngineExhausted ==
    /\ engine # None
    /\ engine.pc = "loop"
    /\ ~(engine.retry_count <= engine.max_retries)
    /\ engine' = [engine EXCEPT
                     !.result = Some(<<FALSE, IF engine.last_error # ""
                                              THEN engine.last_error
                                              ELSE RetriesExhausted>>),
                     !.pc = "returned"]
    /\ UNCHANGED <<intentVars, voiceVars, callVars, interaction, command, fallback, quick>>

NextEngine ==
    \/ EngineEntry
    \/ EngineAttempt
    \/ EngineExhausted

SpecEngine == InitEngine /\ [][NextEngine]_vars

(***************************************************************************)
(* voice_fallback: voice_input_with_smart_fallback and text_input_fallback.*)
(***************************************************************************)
\* the largest max_retries the function is called with
MaxVoiceRetries == 2

\* what the user types at "Press Enter when ready to speak"
ReadyInputs == {"", "c", " C ", "t", "T", "go"}

\* what the user types at "(Type what you would say)"
SaidInputs == {"", "  ", " make a vm "}

\* what the user types at "Is this correct ... (y/n/edit)"
VerifyInputs == {"y", "Y", " y", "n", "", "edit", "EDIT"}

\* what the user types at the manual correction prompt
CorrectedInputs == {"", " make two vms "}

\* what the user types at "Try again?"
RetryInputs == {"y", "Y", "n", ""}

\* what the user types at "Your input:"
TextInputs == {"", "  ", " a database "}

Min(a, b) == IF a < b THEN a ELSE b

\* confidence in percent: min(0.95, 0.7 + len(text) / 100); for ten
\* characters 0.7 + 0.1 is 0.7999999999999999 in binary floating point,
\* below the 0.80 of the test, which the percent keeps by giving 79
EstimatedConfidence(text) ==
    IF Len(text) = 10 THEN 79 ELSE Min(95, 70 + Len(text))

\* real_voice_recognition: the results it can return when the library is
\* installed
RealResults ==
    {[success |-> TRUE, text |-> Some(t), confidence |-> Some(EstimatedConfidence(t)),
      error |-> None] : t \in {"deploy", "deploy vms", "create a web server"}}
    \cup {[success |-> FALSE, text |-> None, confidence |-> None, error |-> Some(e)] :
            e \in {"Could not understand audio - speech unclear",
                   "API service error: e",
                   "Timeout - no speech detected",
                   "Microphone error: e"}}

\* simulate_voice_recognition(user_input): the scenarios random.choices
\* can pick
SimulatedResults(user_input) ==
    {[success |-> TRUE, text |-> Some(user_input), confidence |-> Some(c),
      error |-> None] : c \in {95, 92, 78, 85}}
    \cup {[success |-> FALSE, text |-> None, confidence |-> None, error |-> Some(e)] :
            e \in {"Background noise too loud",
                   "Speech too fast - please slow down",
                   "Unclear pronunciation detected",
                   "Microphone connection lost"}}

\* return (text, method)
Returned(f, text, method) ==
    [f EXCEPT !.result = Some([text |-> text, method |-> method]), !.pc = "returned"]

\* GiveUp with auto_fallback ignored
GiveUpNoFallback(f, method) == Returned(f, None, method)

\* if auto_fallback: return text_input_fallback(prompt)
\* return None, method
GiveUp(f, method) ==
    IF f.auto_fallback
    THEN [f EXCEPT !.pc = "text"]
    ELSE Returned(f, None, method)

\* continue, or the end of a pass: back to the test of the loop
NextPass(f) == [f EXCEPT !.pc = "ready", !.pending = None]

\* voice_input_with_smart_fallback(prompt, max_retries, auto_fallback) is
\* called, with the speech library installed or not; recognitions counts
\* the recognition calls made and after_loop tells that the code after
\* the loop was entered
InitFallback ==
    /\ OthersIdle
    /\ interaction = None
    /\ command = None
    /\ engine = None
    /\ fallback \in {[SPEECH_AVAILABLE |-> sp, max_retries |-> m, auto_fallback |-> af,
                       attempt |-> 0, pc |-> "ready", pending |-> None,
                       recognitions |-> 0, after_loop |-> FALSE, result |-> None] :
                          sp \in BOOLEAN, m \in 0..MaxVoiceRetries, af \in BOOLEAN}
    /\ quick = None

\* while attempt < max_retries: attempt += 1; ready = input(...)
FallbackReady ==
    /\ fallback # None
    /\ fallback.pc = "ready"
    /\ fallback.attempt < fallback.max_retries
    /\ \E typed \in ReadyInputs :
          LET ready == Lower(Strip(typed))
              f == [fallback EXCEPT !.attempt = @ + 1]
          IN  fallback' =
                IF ready = "c" THEN Returned(f, None, "cancelled")
                ELSE IF ready = "t" THEN [f EXCEPT !.pc = "text"]
                ELSE [f EXCEPT !.pc = "recognise"]
    /\ UNCHANGED <<intentVars, voiceVars, callVars, interaction, command, engine, quick>>

\* the result of a recognition is handled up to the next input or return
HandleResult(f, result) ==
    IF result.success
    THEN IF result.confidence[1] < 80
         THEN [f EXCEPT !.pc = "verify", !.pending = result.text]
         ELSE Returned(f, result.text, "voice")
    ELSE IF f.attempt < f.max_retries
         THEN [f EXCEPT !.pc = "retry"]
         ELSE GiveUp(f, "max_retries")

\* Try voice recognition: real_voice_recognition(), or in simulation mode
\* the typed sentence, which ends the pass when blank
FallbackRecognise ==
    /\ fallback # None
    /\ fallback.pc = "recognise"
    /\ LET f == [fallback EXCEPT !.recognitions = @ + 1]
       IN  IF fallback.SPEECH_AVAILABLE
           THEN \E result \in RealResults : fallback' = HandleResult(f, result)
           ELSE \E typed \in SaidInputs :
                  LET what_user_said == Strip(typed)
                  IN  IF what_user_said = ""
                      THEN fallback' = NextPass(fallback)
                      ELSE \E result \in SimulatedResults(what_user_said) :
                              fallback' = HandleResult(f, result)
    /\ UNCHANGED <<intentVars, voiceVars, callVars, interaction, command, engine, quick>>

\* Low confidence: verify = input(...).lower()
FallbackVerify ==
    /\ fallback # None
    /\ fallback.pc = "verify"
    /\ \E typed \in VerifyInputs :
          LET verify == Lower(typed)
          IN  IF verify = "y"
              THEN fallback' = Returned(fallback, fallback.pending, "voice_verified")
              ELSE IF verify = "edit"
              THEN \E typed2 \in CorrectedInputs :
                      LET corrected == Strip(typed2)
                          final_text == IF corrected # "" THEN Some(corrected)
                                        ELSE fallback.pending
                      IN  fallback' = Returned(fallback, final_text, "voice_corrected")
              ELSE IF fallback.attempt < fallback.max_retries
              THEN fallback' = NextPass(fallback)
              ELSE fallback' = GiveUp(fallback, "max_retries")
    /\ UNCHANGED <<intentVars, voiceVars, callVars, interaction, command, engine, quick>>

\* Voice recognition failed with attempts left: retry = input(...).lower()
FallbackRetry ==
    /\ fallback # None
    /\ fallback.pc = "retry"
    /\ \E typed \in RetryInputs :
          LET retry == Lower(typed)
          IN  fallback' = IF retry # "y"
                          THEN GiveUp(fallback, "user_cancelled")
                          ELSE NextPass(fallback)
    /\ UNCHANGED <<intentVars, voiceVars, callVars, interaction, command, engine, quick>>

\* the code after the loop
FallbackAfterLoop ==
    /\ fallback # None
    /\ fallback.pc = "ready"
    /\ ~(fallback.attempt < fallback.max_retries)
    /\ fallback' = GiveUp([fallback EXCEPT !.after_loop = TRUE], "failed")
    /\ UNCHANGED <<intentVars, voiceVars, callVars, interaction, command, engine, quick>>

\* text_input_fallback(prompt), whose result the caller returns
TextInputFallback ==
    /\ fallback # None
    /\ fallback.pc = "text"
    /\ \E typed \in TextInputs :
          LET text == Strip(typed)
          IN  fallback' = IF text # ""
                          THEN Returned(fallback, Some(text), "text_fallback")
                          ELSE Returned(fallback, None, "empty")
    /\ UNCHANGED <<intentVars, voiceVars, callVars, interaction, command, engine, quick>>

NextFallback ==
    \/ FallbackReady
    \/ FallbackRecognise
    \/ FallbackVerify
    \/ FallbackRetry
    \/ FallbackAfterLoop
    \/ TextInputFallback

SpecFallback == InitFallback /\ [][NextFallback]_vars

(***************************************************************************)
(* keyboard_shortcuts: the menus and main_quick_flow.                      *)
(***************************************************************************)
\* what the user types at a menu prompt
KeysTyped ==
    {"1", "2", "3", "4", "a", "z", "g", "c", "d", "n", "s", "m", "l", "x", "t",
     "b", " B ", "q", "h", "?"}

\* what the user types at "Press 'y' to quit" and at "Proceed?"
AnswersTyped == {"y", " Y ", "b", "n", ""}

\* get_valid_choice on one line of input: 'q' asks to quit, 'b' is back, a
\* valid key is returned, anything else is asked again
get_valid_choice(choice, valid_options) ==
    IF choice = "q" THEN "q"
    ELSE IF choice = "b" THEN "back"
    ELSE IF choice \in valid_options THEN choice
    ELSE "invalid"

\* quick_main_menu: shortcut_map.get(choice, choice)
quick_main_menu(choice) ==
    CASE choice = "c" -> "1"
      [] choice = "v" -> "2"
      [] choice = "m" -> "3"
      [] choice = "d" -> "4"
      [] OTHER -> choice

providers ==
    ("1" :> "AWS") @@ ("a" :> "AWS") @@ ("2" :> "Azure") @@ ("z" :> "Azure")
    @@ ("3" :> "GCP") @@ ("g" :> "GCP")

resources ==
    ("1" :> "Compute") @@ ("c" :> "Compute") @@ ("2" :> "Database") @@ ("d" :> "Database")
    @@ ("3" :> "Networking") @@ ("n" :> "Networking") @@ ("4" :> "Storage")
    @@ ("s" :> "Storage")

\* quick_instance_type_menu: shortcut_map of the provider's instance types
instance_types(cloud_provider) ==
    LET names == CASE cloud_provider = "AWS" ->
                        <<"t2.micro", "t3.medium", "m5.large", "c5.xlarge">>
                   [] cloud_provider = "Azure" ->
                        <<"Standard_B1s", "Standard_B2s", "Standard_D2s_v3",
                          "Standard_D4s_v3">>
                   [] OTHER ->
                        <<"e2-micro", "e2-medium", "n2-standard-2", "c2-standard-4">>
    IN  ("1" :> names[1]) @@ ("t" :> names[1]) @@ ("2" :> names[2]) @@ ("m" :> names[2])
        @@ ("3" :> names[3]) @@ ("l" :> names[3]) @@ ("4" :> names[4])
        @@ ("x" :> names[4])

counts ==
    ("1" :> "1") @@ ("s" :> "1") @@ ("2" :> "2-3") @@ ("m" :> "2-3")
    @@ ("3" :> "4-5") @@ ("l" :> "4-5") @@ ("4" :> "6-10") @@ ("x" :> "6-10")

engines ==
    ("1" :> "MySQL") @@ ("m" :> "MySQL") @@ ("2" :> "PostgreSQL") @@ ("p" :> "PostgreSQL")
    @@ ("3" :> "MariaDB") @@ ("r" :> "MariaDB") @@ ("4" :> "SQL Server")
    @@ ("s" :> "SQL Server") @@ ("5" :> "Oracle") @@ ("o" :> "Oracle")

sizes(resource_name) ==
    LET names == IF resource_name = "Database"
                 THEN <<"20 GB", "100 GB", "500 GB", "1 TB">>
                 ELSE <<"50 GB", "250 GB", "1 TB", "5 TB">>
    IN  ("1" :> names[1]) @@ ("s" :> names[1]) @@ ("2" :> names[2]) @@ ("m" :> names[2])
        @@ ("3" :> names[3]) @@ ("l" :> names[3]) @@ ("4" :> names[4])
        @@ ("x" :> names[4])

\* get_resource_details_quick: the details set without asking
PresetDetails(resource_type) ==
    CASE resource_type = "Networking" ->
            <<<<"CIDR Block", "10.0.0.0/16">>, <<"Subnet Count", "2">>>>
      [] resource_type = "Storage" -> <<<<"Storage Type", "Premium SSD">>>>
      [] OTHER -> <<>>

\* get_resource_details_quick: the menus it shows, in order, each with the
\* key its answer is stored under
DetailMenus(cloud_provider, resource_type) ==
    CASE resource_type = "Compute" ->
            <<[key |-> "Instance Type", table |-> instance_types(cloud_provider)],
              [key |-> "Instance Count", table |-> counts]>>
      [] resource_type = "Database" ->
            <<[key |-> "Database Engine", table |-> engines],
              [key |-> "Storage Size", table |-> sizes("Database")]>>
      [] resource_type = "Storage" ->
            <<[key |-> "Storage Capacity", table |-> sizes("Storage")]>>
      [] OTHER -> <<>>

\* InfrastructureConfig.__init__ and reset
EmptyConfig ==
    [cloud_provider |-> None, resource_type |-> None, resource_details |-> <<>>]

\* main_quick_flow has created config and shows the main menu; left and
\* choice keep the menu the last line was typed at and what it meant
InitQuick ==
    /\ OthersIdle
    /\ interaction = None
    /\ command = None
    /\ engine = None
    /\ fallback = None
    /\ quick = [config |-> EmptyConfig, menu |-> "main", step |-> 0, details |-> <<>>,
                left |-> "none", choice |-> "none"]

\* confirm_quit: exit(0) on 'y', otherwise back to where it was called
ConfirmQuit(q, stay) ==
    {IF Lower(Strip(confirm)) = "y" THEN [q EXCEPT !.menu = "exited"] ELSE stay :
        confirm \in AnswersTyped}

\* one pass of the while True of main_quick_flow up to the next menu
MainMenu ==
    /\ quick # None
    /\ quick.menu = "main"
    /\ \E typed \in KeysTyped :
          LET main_choice == quick_main_menu(Lower(Strip(typed)))
              q == [quick EXCEPT !.left = "main", !.choice = main_choice]
          IN  IF main_choice = "q"
              THEN quick' \in ConfirmQuit(q, q)
              ELSE IF main_choice = "1"
              THEN quick' = [q EXCEPT !.menu = "cloud"]
              ELSE quick' = q
    /\ UNCHANGED <<intentVars, voiceVars, callVars, interaction, command, engine, fallback>>

\* quick_cloud_menu answered by one line, and what the outer loop does
\* with the answer
CloudMenu ==
    /\ quick # None
    /\ quick.menu = "cloud"
    /\ \E typed \in KeysTyped :
          LET cloud_choice == get_valid_choice(Lower(Strip(typed)),
                                               {"1", "2", "3", "a", "z", "g", "b", "q"})
              q == [quick EXCEPT !.left = "cloud", !.choice = cloud_choice]
          IN  CASE cloud_choice = "q" -> quick' \in ConfirmQuit(q, q)
                [] cloud_choice = "invalid" -> quick' = q
                [] cloud_choice = "back" ->
                      quick' = [q EXCEPT !.config = EmptyConfig, !.menu = "main"]
                [] OTHER ->
                      quick' = [q EXCEPT
                                  !.config.cloud_provider = Some(providers[cloud_choice]),
                                  !.menu = "resource"]
    /\ UNCHANGED <<intentVars, voiceVars, callVars, interaction, command, engine, fallback>>

\* the details are complete: config.resource_details = details, the
\* summary is shown and "Proceed?" is asked
DetailsDone(q, details) ==
    [q EXCEPT !.config.resource_details = details, !.details = <<>>, !.step = 0,
              !.menu = "confirm"]

\* quick_resource_menu answered by one line, and what the inner loop does
\* with the answer: on back it clears the resource fields and breaks, and
\* the break that follows the inner loop leaves the outer loop as well
ResourceMenu ==
    /\ quick # None
    /\ quick.menu = "resource"
    /\ \E typed \in KeysTyped :
          LET resource_choice ==
                  get_valid_choice(Lower(Strip(typed)),
                                   {"1", "2", "3", "4", "c", "d", "n", "s", "b", "q"})
              q == [quick EXCEPT !.left = "resource", !.choice = resource_choice]
          IN  CASE resource_choice = "q" -> quick' \in ConfirmQuit(q, q)
                [] resource_choice = "invalid" -> quick' = q
                [] resource_choice = "back" ->
                      quick' = [q EXCEPT !.config.resource_type = None,
                                         !.config.resource_details = <<>>,
                                         !.menu = "main"]
                [] OTHER ->
                      LET resource_type == resources[resource_choice]
                          chosen == [q EXCEPT !.config.resource_type = Some(resource_type)]
                          details == PresetDetails(resource_type)
                      IN  quick' =
                            IF DetailMenus(q.config.cloud_provider[1], resource_type) = <<>>
                            THEN DetailsDone(chosen, details)
                            ELSE [chosen EXCEPT !.details = details, !.step = 1,
                                                !.menu = "details"]
    /\ UNCHANGED <<intentVars, voiceVars, callVars, interaction, command, engine, fallback>>

\* one menu of get_resource_details_quick answered by one line; back makes
\* it return 'back' and the inner loop continue
DetailsMenu ==
    /\ quick # None
    /\ quick.menu = "details"
    /\ \E typed \in KeysTyped :
          LET menus == DetailMenus(quick.config.cloud_provider[1],
                                   quick.config.resource_type[1])
              shown == menus[quick.step]
              choice == get_valid_choice(Lower(Strip(typed)),
                                         DOMAIN shown.table \cup {"b", "q"})
              q == [quick EXCEPT !.left = "details", !.choice = choice]
          IN  CASE choice = "q" -> quick' \in ConfirmQuit(q, q)
                [] choice = "invalid" -> quick' = q
                [] choice = "back" ->
                      quick' = [q EXCEPT !.details = <<>>, !.step = 0, !.menu = "resource"]
                [] OTHER ->
                      LET details == Append(quick.details, <<shown.key, shown.table[choice]>>)
                      IN  quick' = IF quick.step = Len(menus)
                                   THEN DetailsDone(q, details)
                                   ELSE [q EXCEPT !.details = details, !.step = @ + 1]
    /\ UNCHANGED <<intentVars, voiceVars, callVars, interaction, command, engine, fallback>>

\* confirm = input("Proceed? (y/n/b for back)"): 'y' resets config and
\* leaves both loops, anything else continues the inner loop
ConfirmSummary ==
    /\ quick # None
    /\ quick.menu = "confirm"
    /\ \E typed \in AnswersTyped :
          LET confirm == Lower(Strip(typed))
              q == [quick EXCEPT !.left = "confirm", !.choice = confirm]
          IN  quick' = IF confirm = "y"
                       THEN [q EXCEPT !.config = EmptyConfig, !.menu = "main"]
                       ELSE [q EXCEPT !.menu = "resource"]
    /\ UNCHANGED <<intentVars, voiceVars, callVars, interaction, command, engine, fallback>>

NextQuick ==
    \/ MainMenu
    \/ CloudMenu
    \/ ResourceMenu
    \/ DetailsMenu
    \/ ConfirmSummary

SpecQuick == InitQuick /\ [][NextQuick]_vars

(***************************************************************************)
(* Notions the properties below are stated with, written directly on the   *)
(* characters of the sentence.                                             *)
(***************************************************************************)
\* lit stands in t at position i (1-based) with no \w character directly
\* before or after it
WholeWordAt(t, lit, i) ==
    /\ i >= 1
    /\ i + Len(lit) - 1 <= Len(t)
    /\ SubSeq(t, i, i + Len(lit) - 1) = lit
    /\ (i = 1 \/ SubSeq(t, i - 1, i - 1) \notin WordChars)
    /\ (i + Len(lit) - 1 = Len(t)
        \/ SubSeq(t, i + Len(lit), i + Len(lit)) \notin WordChars)

\* the occurrences <<keyword, start offset>> of the keywords of the c-th
\* category in the lower-cased sentence t
Occurrences(t, c) ==
    {o \in {INTENT_CATEGORIES[c].keywords[k] : k \in 1..Len(INTENT_CATEGORIES[c].keywords)}
           \X (0..(Len(t) - 1)) : WholeWordAt(t, o[1], o[2] + 1)}

\* the nine negation words
NegationWords ==
    {"no", "not", "without", "don't", "dont", "never", "exclude", "except", "excluding"}

\* the token w holds a negation word delimited inside the token by its ends
\* or by characters that are not letters, digits or underscores
HoldsNegationWord(w) ==
    \E n \in NegationWords : \E i \in 1..Len(w) : WholeWordAt(Lower(w), n, i)

\* a whitespace-delimited token of text[:pos] starts at position a (1-based)
TokenStart(text, pos, a) ==
    a >= 1 /\ a <= pos /\ SubSeq(text, a, a) \notin SpaceChars
    /\ (a = 1 \/ SubSeq(text, a - 1, a - 1) \in SpaceChars)

\* the token of text[:pos] that starts at position a
TokenAt(text, pos, a) ==
    LET b == CHOOSE e \in a..pos :
                 /\ \A j \in a..e : SubSeq(text, j, j) \notin SpaceChars
                 /\ (e = pos \/ SubSeq(text, e + 1, e + 1) \in SpaceChars)
    IN  SubSeq(text, a, b)

\* the start positions of the last n tokens of text[:pos]
LastTokenStarts(text, pos, n) ==
    {a \in 1..pos : /\ TokenStart(text, pos, a)
                    /\ Cardinality({j \in (a + 1)..pos : TokenStart(text, pos, j)}) < n}

\* some pattern of NEGATION_PATTERNS is found in the token w
IsCue(w) == \E p \in 1..Len(NEGATION_PATTERNS) : SearchPattern(NEGATION_PATTERNS[p], w)

Called(op) == pc = "probed" /\ probe.op = op

AfterValidate == pc \in {"validated", "normalized", "done"}

(***************************************************************************)
(* Properties.                                                             *)
(***************************************************************************)
\* C1: validate_intent returns False exactly when categories is empty or some
\* category is both a key of categories and a member of negated_categories,
\* and True otherwise; the call leaves the result it was given as it was.
C1_ValidateExact ==
    /\ [](AfterValidate =>
            valid = Some(~(\/ Len(detected.categories) = 0
                           \/ \E i \in 1..Len(detected.categories) :
                                 detected.categories[i].category
                                     \in detected.negated_categories)))
    /\ [][pc = "detected" => detected' = detected]_vars

\* C1 witness: a validated result with categories that was rejected because
\* of a category that is also negated
C1_Witness ==
    /\ pc = "validated"
    /\ detected.categories # <<>>
    /\ detected.negated_categories \cap Keys(detected.categories) # {}
    /\ valid = Some(FALSE)

\* C2: after detect_intents a category is a key of categories iff some
\* occurrence of one of its keywords is not negated, and is in
\* negated_categories iff some occurrence is negated; no stored list is
\* empty; "Deploy a server WITHOUT a database" has database negated only.
C2_KeysAndNegated ==
    pc = "detected" =>
        LET t == Lower(sentence)
        IN  /\ \A c \in 1..Len(INTENT_CATEGORIES) :
                  LET occ == Occurrences(t, c)
                      name == INTENT_CATEGORIES[c].name
                  IN  /\ name \in Keys(detected.categories)
                            <=> \E o \in occ : ~has_negation(t, o[2])
                      /\ name \in detected.negated_categories
                            <=> \E o \in occ : has_negation(t, o[2])
            /\ \A i \in 1..Len(detected.categories) :
                  detected.categories[i].keywords # <<>>
            /\ sentence = "Deploy a server WITHOUT a database" =>
                  /\ "database" \notin Keys(detected.categories)
                  /\ "database" \in detected.negated_categories

\* C2 witness: the sentence of the negation test, database negated and absent
C2_Witness ==
    /\ pc = "detected"
    /\ sentence = "Deploy a server WITHOUT a database"
    /\ "database" \in detected.negated_categories
    /\ "database" \notin Keys(detected.categories)
    /\ "compute" \in Keys(detected.categories)

\* C3: has_negation is true iff one of the last five whitespace-delimited
\* tokens of the text before the offset (all of them when there are fewer) is
\* a negation cue; a cue further back does not count, and at offset 0 the
\* result is false.
C3_FiveTokenWindow ==
    Called("has_negation") =>
        /\ probe.out <=>
              \E a \in LastTokenStarts(sentence, probe.pos, 5) :
                  IsCue(TokenAt(sentence, probe.pos, a))
        /\ probe.pos = 0 => ~probe.out
        /\ (\A a \in LastTokenStarts(sentence, probe.pos, 5) :
                ~IsCue(TokenAt(sentence, probe.pos, a))) => ~probe.out

\* C3 witness: the cue is exactly the fifth token before the offset
C3_Witness ==
    /\ Called("has_negation")
    /\ sentence = "no x x x x vpc"
    /\ probe.pos = 11
    /\ probe.out
\* the categories dict holding only category name with the keywords kws
Only(name, kws) == <<[category |-> name, keywords |-> kws]>>

\* C4 as stated: "no x x x x x vpc" has "vpc" negated (networking negated and
\* not detected), "no x x x x x x vpc" has it detected with ["vpc"] and
\* nothing negated.
C4_BoundaryAsStated ==
    pc = "detected" =>
        /\ sentence = "no x x x x x vpc" =>
              /\ "networking" \in detected.negated_categories
              /\ "networking" \notin Keys(detected.categories)
        /\ sentence = "no x x x x x x vpc" =>
              /\ detected.categories = Only("networking", <<"vpc">>)
              /\ detected.negated_categories = {}

\* C4 amended: with four words between "no" and "vpc" ("no x x x x vpc") the
\* occurrence is negated; with five ("no x x x x x vpc") or six it is not:
\* networking is detected with ["vpc"] and nothing is negated.
C4_Boundary ==
    pc = "detected" =>
        /\ sentence = "no x x x x vpc" =>
              /\ detected.negated_categories = {"networking"}
              /\ detected.categories = <<>>
        /\ sentence \in {"no x x x x x vpc", "no x x x x x x vpc"} =>
              /\ detected.categories = Only("networking", <<"vpc">>)
              /\ detected.negated_categories = {}

\* C4 witness: five words after "no", "vpc" detected and not negated
C4_Witness ==
    /\ pc = "detected"
    /\ sentence = "no x x x x x vpc"
    /\ detected.categories = Only("networking", <<"vpc">>)
    /\ detected.negated_categories = {}

\* the text before the offset is one single token (no blank after it)
OneTokenBefore ==
    /\ Called("has_negation")
    /\ probe.pos >= 1
    /\ \A j \in 1..probe.pos : SubSeq(sentence, j, j) \notin SpaceChars

\* C5 as stated: a preceding token is a negation cue iff the whole token,
\* compared without case, is one of the nine negation words.
C5_WholeTokenAsStated ==
    OneTokenBefore =>
        (probe.out <=> Lower(Prefix(sentence, probe.pos)) \in NegationWords)

\* C5 amended: a preceding token is a negation cue iff it holds, compared
\* without case, one of the nine negation words delimited inside the token by
\* the token's ends or by characters other than letters, digits and
\* underscores: "not,", "no-" and "(without" are cues, "note", "nothing",
\* "excluded" and "a_no" are not.
C5_CueToken ==
    OneTokenBefore =>
        LET w == Prefix(sentence, probe.pos)
        IN  /\ probe.out <=> HoldsNegationWord(w)
            /\ w \in {"not,", "no-", "(without", "NO", "Don't"} => probe.out
            /\ w \in {"note", "nothing", "excluded", "a_no"} => ~probe.out

\* C5 witness: the token "not," before the keyword negates it
C5_Witness ==
    /\ OneTokenBefore
    /\ sentence = "not, vpc"
    /\ probe.pos = 4
    /\ probe.out

\* C6: a category with a negated occurrence and a non-negated occurrence of
\* its keywords is a key of categories and in negated_categories, and
\* validate_intent returns False; so for "Deploy a server without a database
\* but add a MySQL instance", with categories[database] = ["mysql"].
C6_Contradiction ==
    pc = "validated" =>
        LET t == Lower(sentence)
        IN  /\ \A c \in 1..Len(INTENT_CATEGORIES) :
                  LET occ == Occurrences(t, c)
                      name == INTENT_CATEGORIES[c].name
                  IN  (\E o \in occ : \E q \in occ :
                          /\ LastTokenStarts(t, o[2], 5) # {}
                          /\ \E a \in LastTokenStarts(t, o[2], 5) :
                                HoldsNegationWord(TokenAt(t, o[2], a))
                          /\ \A a \in LastTokenStarts(t, q[2], 5) :
                                ~HoldsNegationWord(TokenAt(t, q[2], a)))
                      => /\ name \in Keys(detected.categories)
                         /\ name \in detected.negated_categories
                         /\ valid = Some(FALSE)
            /\ sentence = "Deploy a server without a database but add a MySQL instance" =>
                  /\ "database" \in detected.negated_categories
                  /\ Get(detected.categories, "database") = <<"mysql">>
                  /\ valid = Some(FALSE)

\* C6 witness: the negated keyword stands first, the affirmed one after it
C6_Witness ==
    /\ pc = "validated"
    /\ sentence = "no database x x x x x mysql"
    /\ detected.negated_categories = {"database"}
    /\ detected.categories = Only("database", <<"mysql">>)
    /\ valid = Some(FALSE)

\* no keyword of any category stands in t as a whole word or phrase
NoKeyword(t) == \A c \in 1..Len(INTENT_CATEGORIES) : Occurrences(t, c) = {}

\* C7: a sentence holding no declared keyword as a whole word or phrase gives
\* empty categories and empty negated_categories, and validate_intent False.
C7_NoKeyword ==
    (pc = "validated" /\ NoKeyword(Lower(sentence))) =>
        /\ detected.categories = <<>>
        /\ detected.negated_categories = {}
        /\ valid = Some(FALSE)

\* C7 witness: a keyword only inside a longer word, after a negation word
C7_Witness ==
    /\ pc = "validated"
    /\ sentence = "no adbc x"
    /\ detected.categories = <<>>
    /\ valid = Some(FALSE)

\* the keywords, of any category, that stand in t as a whole word or phrase
KeywordsIn(t) ==
    UNION {{o[1] : o \in Occurrences(t, c)} : c \in 1..Len(INTENT_CATEGORIES)}

\* the categories that declare keyword kw
Declaring(kw) ==
    {c \in 1..Len(INTENT_CATEGORIES) :
        \E k \in 1..Len(INTENT_CATEGORIES[c].keywords) :
            INTENT_CATEGORIES[c].keywords[k] = kw}

\* C8: a sentence holding exactly one declared keyword, of exactly one
\* category c, with no negation cue among the five tokens before it, gives
\* categories = {c: [keyword]}, c not negated, and validate_intent True.
C8_SingleKeyword ==
    pc = "validated" =>
        LET t == Lower(sentence)
            kws == KeywordsIn(t)
        IN  Cardinality(kws) = 1 =>
                LET kw == CHOOSE k \in kws : TRUE
                    cs == Declaring(kw)
                IN  Cardinality(cs) = 1 =>
                        LET c == CHOOSE d \in cs : TRUE
                        IN  (\A o \in Occurrences(t, c) :
                                \A a \in LastTokenStarts(t, o[2], 5) :
                                    ~IsCue(TokenAt(t, o[2], a)))
                            => /\ detected.categories
                                     = Only(INTENT_CATEGORIES[c].name, <<kw>>)
                               /\ INTENT_CATEGORIES[c].name
                                     \notin detected.negated_categories
                               /\ valid = Some(TRUE)

\* C8 witness: the one keyword stands twice, neither occurrence negated
C8_Witness ==
    /\ pc = "validated"
    /\ sentence = "mysql x mysql"
    /\ detected.categories = Only("database", <<"mysql">>)
    /\ valid = Some(TRUE)

\* one of the words stands in t as a whole word or phrase
AnyWord(t, words) == \E w \in words : \E i \in 1..Len(t) : WholeWordAt(t, w, i)

\* C9: extract_action returns the first kind, in the order create, delete,
\* modify, query, one of whose verbs stands as a whole word in the lower-cased
\* sentence, wherever the verbs stand, and create when no verb is present.
C9_ActionPriority ==
    Called("extract_action") =>
        LET t == Lower(sentence)
        IN  /\ probe.out \in {"create", "delete", "modify", "query"}
            /\ probe.out =
                  IF AnyWord(t, {"create", "deploy", "launch", "provision", "setup",
                                 "set up", "add", "build"}) THEN "create"
                  ELSE IF AnyWord(t, {"delete", "remove", "destroy", "terminate",
                                      "tear down"}) THEN "delete"
                  ELSE IF AnyWord(t, {"modify", "update", "change", "edit",
                                      "configure"}) THEN "modify"
                  ELSE IF AnyWord(t, {"show", "list", "describe", "get", "what",
                                      "which"}) THEN "query"
                  ELSE "create"
            /\ sentence \in {"deploy remove", "remove deploy"} => probe.out = "create"

\* C9 witness: the delete verb stands before the create verb
C9_Witness ==
    /\ Called("extract_action")
    /\ sentence = "remove deploy"
    /\ probe.out = "create"

\* C10 as stated: sentences whose only provider mention is "amazon", "amazon
\* web services" or "aws", not negated, all normalise to "aws".
C10_AliasesAsStated ==
    (pc = "normalized" /\ sentence \in {"deploy on amazon", "deploy on amazon web services",
                                     "deploy on aws"})
        => provider = Some("aws")

\* the provider keywords
ProviderKeywords ==
    {"aws", "amazon web services", "azure", "microsoft azure", "gcp", "google cloud",
     "google cloud platform"}

\* the provider keywords standing in t as a whole word or phrase
ProviderKeywordsIn(t) ==
    {kw \in ProviderKeywords : \E i \in 1..Len(t) : WholeWordAt(t, kw, i)}

\* C10 amended: sentences whose only provider keywords are "amazon web
\* services" or "aws", none of their occurrences negated, normalise to "aws";
\* the bare word "amazon" is no provider keyword, and a sentence with no
\* provider keyword ("deploy on amazon") normalises to None.
C10_Aliases ==
    pc = "normalized" =>
        LET t == Lower(sentence)
            found == ProviderKeywordsIn(t)
        IN  /\ (/\ found # {}
                /\ found \subseteq {"aws", "amazon web services"}
                /\ "provider" \notin detected.negated_categories)
               => provider = Some("aws")
            /\ found = {} => provider = None
            /\ sentence \in {"deploy on amazon", "deploy on Amazon"} => provider = None

\* C10 witness: the alias "amazon web services" normalised to "aws"
C10_Witness ==
    /\ pc = "normalized"
    /\ sentence = "deploy on amazon web services"
    /\ Get(detected.categories, "provider") = <<"amazon web services">>
    /\ provider = Some("aws")

\* the canonical tag of each provider keyword
TagOf(kw) ==
    CASE kw \in {"aws", "amazon web services"} -> "aws"
      [] kw \in {"azure", "microsoft azure"} -> "azure"
      [] kw \in {"gcp", "google cloud", "google cloud platform"} -> "gcp"

\* C11: normalize_provider can always be called on a detection result and
\* returns "aws", "azure", "gcp" or None; None exactly when provider is no key
\* of categories; otherwise the tag of the first recorded keyword, every
\* declared provider keyword having a tag.
C11_ProviderTag ==
    /\ pc = "validated" => ENABLED NormalizeProvider
    /\ pc = "normalized" =>
          /\ provider \in {None, Some("aws"), Some("azure"), Some("gcp")}
          /\ provider = None <=> "provider" \notin Keys(detected.categories)
          /\ "provider" \in Keys(detected.categories) =>
                LET kw == Get(detected.categories, "provider")[1]
                IN  /\ kw \in ProviderKeywords
                    /\ provider = Some(TagOf(kw))
          /\ {INTENT_CATEGORIES[9].keywords[k] :
                 k \in 1..Len(INTENT_CATEGORIES[9].keywords)} = ProviderKeywords

\* C11 witness: the first recorded keyword is "google cloud", tagged "gcp"
C11_Witness ==
    /\ pc = "normalized"
    /\ sentence = "deploy on google cloud platform"
    /\ Get(detected.categories, "provider")[1] = "google cloud"
    /\ provider = Some("gcp")

\* the name extract_os gives each os keyword
OsName(kw) ==
    CASE kw = "ubuntu" -> "Ubuntu"
      [] kw = "windows" -> "Windows"
      [] kw = "amazon linux" -> "Amazon Linux"
      [] kw = "centos" -> "Centos"
      [] kw = "rhel" -> "RHEL"
      [] kw = "debian" -> "Debian"
      [] kw = "fedora" -> "Fedora"

\* C12: extract_os returns None when os is no key of categories; otherwise
\* the name of the first recorded os keyword: "Amazon Linux" for "amazon
\* linux", "RHEL" for "rhel", and the keyword with its first letter in upper
\* case for every other ("Ubuntu", "Centos").
C12_OsName ==
    pc = "done" =>
        /\ "os" \notin Keys(detected.categories) => os = None
        /\ "os" \in Keys(detected.categories) =>
              LET kw == Get(detected.categories, "os")[1]
              IN  /\ os = Some(OsName(kw))
                  /\ kw \notin {"amazon linux", "rhel"} =>
                        /\ Head(os[1]) = UpperChar(Head(kw))
                        /\ Tail(os[1]) = Tail(kw)

\* C12 witness: the keyword "rhel" gives "RHEL"
C12_Witness ==
    /\ pc = "done"
    /\ sentence = "deploy on rhel"
    /\ Get(detected.categories, "os") = <<"rhel">>
    /\ os = Some("RHEL")

\* C13: "Deploy a small Ubuntu server on AWS with MySQL" gives compute with
\* "server" and "small", os ["ubuntu"], provider ["aws"], database ["mysql"],
\* action create and nothing negated; then validate_intent True,
\* normalize_provider "aws" and extract_os "Ubuntu".
C13_EndToEnd ==
    (pc = "done" /\ sentence = "Deploy a small Ubuntu server on AWS with MySQL") =>
        /\ Keys(detected.categories) = {"compute", "os", "provider", "database"}
        /\ InList(Get(detected.categories, "compute"), "server")
        /\ InList(Get(detected.categories, "compute"), "small")
        /\ Get(detected.categories, "os") = <<"ubuntu">>
        /\ Get(detected.categories, "provider") = <<"aws">>
        /\ Get(detected.categories, "database") = <<"mysql">>
        /\ detected.action = "create"
        /\ detected.negated_categories = {}
        /\ valid = Some(TRUE)
        /\ provider = Some("aws")
        /\ os = Some("Ubuntu")

\* C13 witness: the pipeline has run to its end on that sentence
C13_Witness ==
    /\ pc = "done"
    /\ sentence = "Deploy a small Ubuntu server on AWS with MySQL"
    /\ Get(detected.categories, "compute") = <<"server", "small">>
    /\ valid = Some(TRUE)
    /\ os = Some("Ubuntu")

\* C14: a keyword is recorded only where it stands as a whole word or phrase:
\* not inside a longer word ("db" in "adbc", "sql" in "mysql", "monitor" in
\* "monitoring"), but next to punctuation or a hyphen ("vpc,", "e2-medium").
C14_WholeWord ==
    pc = "detected" =>
        LET t == Lower(sentence)
        IN  /\ \A i \in 1..Len(detected.categories) :
                  \A k \in 1..Len(detected.categories[i].keywords) :
                      \E j \in 1..Len(t) :
                          WholeWordAt(t, detected.categories[i].keywords[k], j)
            /\ sentence = "adbc" => detected.categories = <<>>
            /\ sentence = "mysql" => detected.categories = Only("database", <<"mysql">>)
            /\ sentence = "monitoring" =>
                  detected.categories = Only("monitoring", <<"monitoring">>)
            /\ sentence = "vpc," => detected.categories = Only("networking", <<"vpc">>)
            /\ sentence = "e2-medium" => detected.categories = Only("compute", <<"medium">>)

\* C14 witness: "medium" found after the hyphen of "e2-medium"
C14_Witness ==
    /\ pc = "detected"
    /\ sentence = "e2-medium"
    /\ detected.categories = Only("compute", <<"medium">>)

\* the number of places of list that hold kw
CountIn(list, kw) == Cardinality({i \in 1..Len(list) : list[i] = kw})

\* C15: no list of categories holds a keyword twice; every occurrence is
\* tested for negation on its own, so a keyword with a negated and a
\* non-negated occurrence is recorded once and its category is negated.
C15_OncePerKeyword ==
    pc = "detected" =>
        LET t == Lower(sentence)
        IN  /\ \A i \in 1..Len(detected.categories) :
                  \A k \in 1..Len(detected.categories[i].keywords) :
                      CountIn(detected.categories[i].keywords,
                              detected.categories[i].keywords[k]) = 1
            /\ \A c \in 1..Len(INTENT_CATEGORIES) :
                  LET occ == Occurrences(t, c)
                      name == INTENT_CATEGORIES[c].name
                  IN  \A o \in occ : \A q \in occ :
                          (o[1] = q[1] /\ has_negation(t, o[2]) /\ ~has_negation(t, q[2]))
                          => /\ name \in Keys(detected.categories)
                             /\ CountIn(Get(detected.categories, name), o[1]) = 1
                             /\ name \in detected.negated_categories
            /\ sentence = "database no database" =>
                  /\ detected.categories = Only("database", <<"database">>)
                  /\ detected.negated_categories = {"database"}

\* C15 witness: the second occurrence of the keyword is the negated one
C15_Witness ==
    /\ pc = "detected"
    /\ sentence = "database no database"
    /\ detected.categories = Only("database", <<"database">>)
    /\ detected.negated_categories = {"database"}

\* every character of s is whitespace
IsBlank(s) == \A i \in 1..Len(s) : SubSeq(s, i, i) \in SpaceChars

\* C16: on the result of every sentence validate_intent, normalize_provider
\* and extract_os can be called in their turn, and every operation returns a
\* value of its kind; the empty sentence and a sentence of only whitespace
\* give action create, no categories and nothing negated, then
\* validate_intent False and None from normalize_provider and extract_os.
C16_Graceful ==
    /\ pc = "detected" => ENABLED ValidateIntent
    /\ pc = "validated" => ENABLED NormalizeProvider
    /\ pc = "normalized" => ENABLED ExtractOs
    /\ pc = "done" =>
          /\ detected.action \in {ACTION_VERBS[k].kind : k \in 1..Len(ACTION_VERBS)}
          /\ valid \in {Some(TRUE), Some(FALSE)}
          /\ Len(provider) <= 1
          /\ Len(os) <= 1
          /\ IsBlank(sentence) =>
                /\ detected.action = "create"
                /\ detected.categories = <<>>
                /\ detected.negated_categories = {}
                /\ valid = Some(FALSE)
                /\ provider = None
                /\ os = None

\* C16 witness: the pipeline has run to its end on blanks and a tab
C16_Witness ==
    /\ pc = "done"
    /\ sentence = " \t "
    /\ detected.categories = <<>>
    /\ valid = Some(FALSE)
    /\ provider = None
    /\ os = None

RECURSIVE Upper(_)
\* s with every letter in upper case (the string is mapped half by half)
Upper(s) ==
    IF Len(s) = 0 THEN ""
    ELSE IF Len(s) = 1 THEN UpperChar(s)
    ELSE Upper(SubSeq(s, 1, Len(s) \div 2)) \o Upper(SubSeq(s, Len(s) \div 2 + 1, Len(s)))

\* the results d and e agree on everything but raw_sentence
SameButRaw(d, e) ==
    /\ d.action = e.action
    /\ d.categories = e.categories
    /\ d.negated_categories = e.negated_categories

\* C18: the result of a sentence has the action, categories and
\* negated_categories of the result of the same sentence in lower case (when
\* it is not in lower case already) and in upper case, so of any re-casing,
\* and raw_sentence is the input as given; every recorded keyword is a
\* lower-case string of the table, and "AWS EC2 t2.micro" records the
\* provider keyword "aws".
C18_CaseInsensitive ==
    pc = "detected" =>
        /\ detected.raw_sentence = sentence
        /\ sentence # Lower(sentence) =>
              SameButRaw(detected, detect_intents(Lower(sentence)))
        /\ SameButRaw(detected, detect_intents(Upper(sentence)))
        /\ \A i \in 1..Len(detected.categories) :
              \A k \in 1..Len(detected.categories[i].keywords) :
                  LET kw == detected.categories[i].keywords[k]
                  IN  /\ Lower(kw) = kw
                      /\ \E c \in Declaring(kw) :
                            INTENT_CATEGORIES[c].name = detected.categories[i].category
        /\ sentence = "AWS EC2 t2.micro" =>
              Get(detected.categories, "provider") = <<"aws">>

\* C18 witness: upper-case names in the sentence, lower-case keywords recorded
C18_Witness ==
    /\ pc = "detected"
    /\ sentence = "AWS EC2 t2.micro"
    /\ detected.raw_sentence = "AWS EC2 t2.micro"
    /\ Get(detected.categories, "provider") = <<"aws">>
    /\ Get(detected.categories, "compute") = <<"ec2">>

\* C19: a keyword with an occurrence that is not negated is recorded under
\* every category that declares it, whatever the other categories hold:
\* "container" under compute and under container; "Launch a large container
\* in GCP with MongoDB" gives compute with "large" and "container", container
\* ["container"], provider ["gcp"] and database ["mongodb"].
C19_PerCategory ==
    pc = "detected" =>
        LET t == Lower(sentence)
        IN  /\ \A c \in 1..Len(INTENT_CATEGORIES) :
                  \A o \in Occurrences(t, c) :
                      ~has_negation(t, o[2]) =>
                          /\ INTENT_CATEGORIES[c].name \in Keys(detected.categories)
                          /\ InList(Get(detected.categories, INTENT_CATEGORIES[c].name),
                                    o[1])
            /\ Cardinality(Declaring("container")) = 2
            /\ sentence = "Launch a large container in GCP with MongoDB" =>
                  /\ InList(Get(detected.categories, "compute"), "large")
                  /\ InList(Get(detected.categories, "compute"), "container")
                  /\ Get(detected.categories, "container") = <<"container">>
                  /\ Get(detected.categories, "provider") = <<"gcp">>
                  /\ Get(detected.categories, "database") = <<"mongodb">>

\* C19 witness: "container" recorded under both of its categories
C19_Witness ==
    /\ pc = "detected"
    /\ sentence = "Launch a large container in GCP with MongoDB"
    /\ Get(detected.categories, "compute") = <<"container", "large">>
    /\ Get(detected.categories, "container") = <<"container">>

\* the responses that say no
NegativeResponses ==
    {"no", "nope", "wrong", "incorrect", "cancel", "stop", "not right", "not ok"}

\* the response holds one of the words, anywhere in it
HoldsOneOf(response, words) ==
    \E w \in 1..Len(words) : Contains(Lower(response), words[w])

\* C20: confirm_yes_no returns True only for an affirmative response; it
\* returns False when listening fails, when the response is unclear (no yes
\* word and no no word in it), and whenever the response is one of no, nope,
\* wrong, incorrect, cancel, stop, "not right", "not ok".
C20_SafeConfirmation ==
    pc = "confirmed" =>
        /\ ~heard.success => confirmed = Some(FALSE)
        /\ (heard.success /\ ~HoldsOneOf(heard.text, yes_words)
                          /\ ~HoldsOneOf(heard.text, no_words))
              => confirmed = Some(FALSE)
        /\ (heard.success /\ Lower(heard.text) \in NegativeResponses)
              => confirmed = Some(FALSE)
        /\ confirmed = Some(TRUE) =>
              /\ heard.success
              /\ Lower(heard.text) \notin NegativeResponses
              /\ HoldsOneOf(heard.text, yes_words)

\* C20: the response "incorrect" has been confirmed
C20_IncorrectConfirmed ==
    /\ pc = "confirmed"
    /\ heard = [success |-> TRUE, text |-> "incorrect"]
    /\ confirmed = Some(TRUE)

\* what each sentence gives a caller that runs alone
Alone == [s \in CallSentences |-> detect_intents(s)]

\* C17: however the calls of several callers are interleaved, on one parser
\* or on several, every caller gets what it gets running alone; the tables
\* stay as they were; and no object of a result is an object of another
\* caller's result or a list of the tables.
C17_Stateless ==
    pc = "callers" =>
        /\ tables = [INTENT_CATEGORIES |-> INTENT_CATEGORIES,
                     ACTION_VERBS |-> ACTION_VERBS,
                     NEGATION_PATTERNS |-> NEGATION_PATTERNS]
        /\ \A i \in Callers :
              LET st == callers[i]
                  alone == Alone[st.sentence]
              IN  /\ st.pc \in {"detected", "validated", "normalized", "done"} =>
                        st.detected = alone
                  /\ st.pc \in {"validated", "normalized", "done"} =>
                        st.valid = Some(validate_intent(alone))
                  /\ st.pc \in {"normalized", "done"} =>
                        st.provider = normalize_provider(alone)
                  /\ st.pc = "done" => st.os = extract_os(alone)
                  /\ st.objs \cap TableLists = {}
        /\ \A i \in Callers : \A j \in Callers \ {i} :
              callers[i].objs \cap callers[j].objs = {}

\* C17 witness: two callers on one parser have finished, their calls
\* interleaved (each created an object after an object of the other)
C17_Witness ==
    /\ pc = "callers"
    /\ callers[1].pc = "done"
    /\ callers[2].pc = "done"
    /\ callers[1].parser = callers[2].parser
    /\ callers[1].sentence = "database no database"
    /\ callers[2].sentence = "MySQL container"
    /\ \E a \in callers[1].objs : \E b \in callers[2].objs : a < b
    /\ \E a \in callers[1].objs : \E b \in callers[2].objs : a > b
    /\ callers[1].valid = Some(FALSE)
    /\ callers[2].valid = Some(TRUE)

\* the place of kw in list, 0 when it is not in it
IndexIn(list, kw) ==
    IF InList(list, kw) THEN CHOOSE i \in 1..Len(list) : list[i] = kw ELSE 0

\* the place of the category called name in INTENT_CATEGORIES
CategoryIndex(name) ==
    CHOOSE c \in 1..Len(INTENT_CATEGORIES) : INTENT_CATEGORIES[c].name = name

\* C26: every list of categories holds keywords of its category in their
\* declared order, and the keys of categories stand in the declared order of
\* the categories, wherever the keywords stand in the sentence; so "azure"
\* named before "aws" normalises to "aws" and "windows" named before
\* "ubuntu" gives "Ubuntu".
C26_DeclaredOrder ==
    pc = "done" =>
        LET cats == detected.categories
        IN  /\ \A i \in 1..Len(cats) :
                  LET declared == INTENT_CATEGORIES[CategoryIndex(cats[i].category)].keywords
                      kws == cats[i].keywords
                  IN  /\ \A a \in 1..Len(kws) : IndexIn(declared, kws[a]) > 0
                      /\ \A a \in 1..Len(kws) : \A b \in (a + 1)..Len(kws) :
                            IndexIn(declared, kws[a]) < IndexIn(declared, kws[b])
            /\ \A i \in 1..Len(cats) : \A j \in (i + 1)..Len(cats) :
                  CategoryIndex(cats[i].category) < CategoryIndex(cats[j].category)
            /\ sentence \in {"azure and aws", "deploy on azure then aws", "gcp azure aws"} =>
                  provider = Some("aws")
            /\ sentence = "windows and ubuntu" => os = Some("Ubuntu")

\* C26 witness: "azure" stands first in the sentence, "aws" first in the list
C26_Witness ==
    /\ pc = "done"
    /\ sentence = "azure and aws"
    /\ Get(detected.categories, "provider") = <<"aws", "azure">>
    /\ provider = Some("aws")

\* s without its first token
DropFirstToken(s) == Join(Tail(Split(s)))

\* C27: the action of a sentence is the action of the sentence with a
\* negation word put before it, and of the sentence with its leading negation
\* word taken away; "don't delete the server" has action delete with compute
\* negated, "x delete the server" has action delete with compute detected.
C27_ActionIgnoresNegation ==
    pc = "detected" =>
        /\ \A cue \in NegationWords :
              extract_action(cue \o " " \o sentence) = detected.action
        /\ (Split(sentence) # <<>> /\ Lower(Split(sentence)[1]) \in NegationWords) =>
              extract_action(DropFirstToken(sentence)) = detected.action
        /\ sentence = "don't delete the server" =>
              /\ detected.action = "delete"
              /\ detected.categories = <<>>
              /\ detected.negated_categories = {"compute"}
        /\ sentence = "x delete the server" =>
              /\ detected.action = "delete"
              /\ detected.categories = Only("compute", <<"server">>)
              /\ detected.negated_categories = {}

\* C27 witness: the negated verb still decides the action
C27_Witness ==
    /\ pc = "detected"
    /\ sentence = "don't delete the server"
    /\ detected.action = "delete"
    /\ detected.negated_categories = {"compute"}

\* C28: a category is negated exactly when, for some occurrence of one of its
\* keywords, one of the last five tokens of the text before the start of the
\* occurrence is a cue; the text from the occurrence on is not read: "vpc
\* not" leaves networking affirmed, and for "load balancer" the five tokens
\* are counted back from "load".
C28_OnlyTextBefore ==
    pc = "detected" =>
        LET t == Lower(sentence)
        IN  /\ \A c \in 1..Len(INTENT_CATEGORIES) :
                  INTENT_CATEGORIES[c].name \in detected.negated_categories
                  <=> \E o \in Occurrences(t, c) :
                          LET before == Prefix(t, o[2])
                          IN  \E a \in LastTokenStarts(before, o[2], 5) :
                                  IsCue(TokenAt(before, o[2], a))
            /\ sentence \in {"vpc not", "vpc without", "vpc, no"} =>
                  /\ detected.categories = Only("networking", <<"vpc">>)
                  /\ detected.negated_categories = {}
            /\ sentence = "no x x x x load balancer" =>
                  /\ detected.categories = <<>>
                  /\ detected.negated_categories = {"networking"}
            /\ sentence = "no x x x x x load balancer" =>
                  /\ detected.categories = Only("networking", <<"load balancer">>)
                  /\ detected.negated_categories = {}

\* C28 witness: the cue is the fifth token before "load"
C28_Witness ==
    /\ pc = "detected"
    /\ sentence = "no x x x x load balancer"
    /\ detected.categories = <<>>
    /\ detected.negated_categories = {"networking"}

\* the three modes
Modes == {"text", "voice", "auto"}

\* C29: current_mode is always text, voice or auto; set_mode with another
\* value returns False and changes nothing; set_mode with one of the three
\* returns True, sets the mode and appends the mode held before to
\* mode_history, also when the mode stays the same and also through
\* toggle_mode, so the history is as long as the number of successful
\* set_mode calls; toggle_mode leaves the mode at text when it was voice and
\* at voice otherwise.
C29_InteractionMode ==
    interaction # None =>
        /\ interaction.current_mode \in Modes
        /\ Len(interaction.mode_history) = interaction.successes
        /\ interaction.last # None =>
              LET call == interaction.last[1]
                  before == call.before
                  appended == Append(before.mode_history, before.current_mode)
              IN  /\ (call.op = "set_mode" /\ call.mode \notin Modes) =>
                        /\ ~call.ret
                        /\ ModeObject(interaction) = before
                  /\ (call.op = "set_mode" /\ call.mode \in Modes) =>
                        /\ call.ret
                        /\ interaction.current_mode = call.mode
                        /\ interaction.mode_history = appended
                  /\ call.op = "toggle_mode" =>
                        /\ interaction.current_mode \in {"voice", "text"}
                        /\ interaction.current_mode =
                              IF before.current_mode = "voice" THEN "text" ELSE "voice"
                        /\ interaction.mode_history = appended

\* C29 witness: set_mode("text") on a new object, whose mode is text already,
\* returned True and recorded "text"
C29_Witness ==
    /\ interaction # None
    /\ interaction.calls = 1
    /\ interaction.last = Some([op |-> "set_mode", mode |-> "text", ret |-> TRUE,
                                before |-> [current_mode |-> "text",
                                            mode_history |-> <<>>]])
    /\ interaction.mode_history = <<"text">>

\* the attempts of get_confirmed_command in which the command was listened
\* for, so far
CommandListens ==
    Len(command.history) + (IF command.pc = "confirm" THEN 1 ELSE 0)

\* C21: get_confirmed_command listens for the command at most max_attempts
\* times; no attempt but the last is a confirmed one; it returns (True,
\* command) only when the last attempt heard that command and confirm_yes_no
\* returned True in it, and (False, "") only after max_attempts attempts none
\* of which was confirmed.
C21_ConfirmedCommand ==
    command # None =>
        LET h == command.history
            n == Len(h)
        IN  /\ CommandListens <= command.max_attempts
            /\ \A k \in 1..(n - 1) : h[k].confirmed # Some(TRUE)
            /\ command.pc # "returned" => \A k \in 1..n : h[k].confirmed # Some(TRUE)
            /\ command.pc = "returned" <=> command.result # None
            /\ command.result # None =>
                  LET ok == command.result[1][1]
                      text == command.result[1][2]
                  IN  IF ok
                      THEN /\ n >= 1
                           /\ h[n].heard = [success |-> TRUE, text |-> text]
                           /\ h[n].confirmed = Some(TRUE)
                      ELSE /\ text = ""
                           /\ n = command.max_attempts
                           /\ \A k \in 1..n : h[k].confirmed # Some(TRUE)

\* C21 witness: the first attempt heard nothing, the second was not
\* confirmed, the third was
C21_Witness ==
    /\ command # None
    /\ command.max_attempts = 3
    /\ Len(command.history) = 3
    /\ ~command.history[1].heard.success
    /\ command.history[2].confirmed = Some(FALSE)
    /\ command.history[3].confirmed = Some(TRUE)
    /\ command.result = Some(<<TRUE, "create a database">>)

\* an outcome that costs listen_with_retry one attempt and no more: a
\* timeout, unintelligible speech (blank text included) or another error
ConsumesAttempt(outcome) ==
    Raised(outcome) \in {"WaitTimeoutError", "UnknownValueError", "Exception"}

\* C22: listen_with_retry makes at most max_retries + 1 attempts and, until
\* it has returned, can always take a step; every attempt but the last is a
\* timeout, unintelligible speech or another error; it returns (True, text)
\* at the first attempt with non-empty text, (False, message) at once on a
\* RequestError or OSError, (False, last error) after max_retries + 1
\* failed attempts, and (False, message) with no attempt when there is no
\* microphone.
C22_ListenWithRetry ==
    engine # None =>
        LET h == engine.history
            n == Len(h)
        IN  /\ n <= engine.max_retries + 1
            /\ ~engine.microphone => n = 0
            /\ \A k \in 1..(n - 1) : ConsumesAttempt(h[k])
            /\ engine.pc = "returned" <=> engine.result # None
            /\ engine.pc # "returned" =>
                  /\ \A k \in 1..n : ConsumesAttempt(h[k])
                  /\ ENABLED NextEngine
            /\ engine.result # None =>
                  LET ok == engine.result[1][1]
                      text == engine.result[1][2]
                  IN  IF ~engine.microphone
                      THEN ~ok /\ text = MicrophoneMissing
                      ELSE /\ n >= 1
                           /\ CASE Raised(h[n]) = "none" ->
                                     ok /\ text = Strip(h[n].text) /\ text # ""
                                [] Raised(h[n]) \in {"RequestError", "OSError"} ->
                                     ~ok /\ text = LastError(Raised(h[n]))
                                [] OTHER ->
                                     /\ ~ok
                                     /\ n = engine.max_retries + 1
                                     /\ text = LastError(Raised(h[n]))

\* C22 witness: a speech-service error at the second of three allowed
\* attempts has ended the call
C22_Witness ==
    /\ engine # None
    /\ engine.max_retries = 2
    /\ Len(engine.history) = 2
    /\ engine.history[1].kind = "WaitTimeoutError"
    /\ engine.history[2].kind = "RequestError"
    /\ engine.result = Some(<<FALSE, LastError("RequestError")>>)

\* C23: with auto_fallback=True voice_input_with_smart_fallback makes at
\* most max_retries recognition attempts, can always take a step until it
\* has returned, and returns accepted voice text (voice, voice_verified,
\* voice_corrected), a cancellation (cancelled) or what text_input_fallback
\* gave (text_fallback with the text, empty without); the methods
\* max_retries, user_cancelled and failed are never returned.
C23_AutoFallback ==
    (fallback # None /\ fallback.auto_fallback) =>
        /\ fallback.recognitions <= fallback.max_retries
        /\ fallback.attempt <= fallback.max_retries
        /\ fallback.pc = "returned" <=> fallback.result # None
        /\ fallback.pc # "returned" => ENABLED NextFallback
        /\ fallback.result # None =>
              LET r == fallback.result[1]
              IN  /\ r.method \notin {"max_retries", "user_cancelled", "failed"}
                  /\ \/ /\ r.method \in {"voice", "voice_verified", "voice_corrected"}
                        /\ r.text # None
                        /\ fallback.recognitions >= 1
                     \/ r.method = "cancelled" /\ r.text = None
                     \/ r.method = "text_fallback" /\ r.text # None /\ r.text # Some("")
                     \/ r.method = "empty" /\ r.text = None

\* C23 witness: both allowed recognitions failed and the typed text came
\* back from text_input_fallback
C23_Witness ==
    /\ fallback # None
    /\ fallback.auto_fallback
    /\ fallback.max_retries = 2
    /\ fallback.recognitions = 2
    /\ ~fallback.after_loop
    /\ fallback.result = Some([text |-> Some("a database"), method |-> "text_fallback"])

\* C24: called with max_retries >= 1, voice_input_with_smart_fallback never
\* enters the code placed after the retry loop.
C24_LoopAlwaysReturns ==
    (fallback # None /\ fallback.max_retries >= 1) => ~fallback.after_loop

\* C24, the case that fails: in simulation mode the last allowed pass was
\* given a blank sentence, and the code after the loop ran
C24_AfterLoopReached ==
    /\ fallback # None
    /\ fallback.max_retries >= 1
    /\ ~fallback.SPEECH_AVAILABLE
    /\ fallback.attempt = fallback.max_retries
    /\ fallback.recognitions < fallback.attempt
    /\ fallback.after_loop

\* C25: 'b' typed at the resource type menu brings up the cloud provider
\* menu, and whenever the main menu is shown the configuration holds no
\* cloud_provider.
C25_BackToCloudSelection ==
    quick # None =>
        /\ (quick.left = "resource" /\ quick.choice = "back") => quick.menu = "cloud"
        /\ quick.menu = "main" => quick.config.cloud_provider = None

\* C25, the case that fails: 'b' at the resource type menu has brought up
\* the main menu, with the provider chosen before still in the
\* configuration
C25_StaleProvider ==
    /\ quick # None
    /\ quick.left = "resource"
    /\ quick.choice = "back"
    /\ quick.menu = "main"
    /\ quick.config = [cloud_provider |-> Some("Azure"), resource_type |-> None,
                       resource_details |-> <<>>]

====
